---- MODULE Spec2Model ----
(***************************************************************************)
(* Audio-reactive visualiser of the YouTube Music desktop wrapper.         *)
(*                                                                         *)
(* The canvas engine (src/scripts/living-background.js) is modelled as a   *)
(* state machine: its module-level variables are the state, every event    *)
(* handler (toggle click, document click, animation-frame callback) is one *)
(* atomic action.                                                          *)
(*                                                                         *)
(* Numbers.  The code computes in IEEE doubles; the model computes in      *)
(* fixed point with truncation:                                            *)
(*   raw band levels      in units of 1/LevelScale                         *)
(*   smoothed levels, orb opacities in units of 1/SmoothScale              *)
(*   composite energy     in units of 1/EnergyScale                        *)
(*   bpm                  in units of 1/BpmScale                           *)
(*   particle life        in units of 1/LifeScale                          *)
(*   time                 in whole milliseconds                            *)
(***************************************************************************)
EXTENDS Integers, Sequences, FiniteSets, TLC

\* ------------------------------------------------------------------------
\* CONFIG (living-background.js:21-37)
\* ------------------------------------------------------------------------
FFT_SIZE == 2048
TARGET_FPS == 60
MAX_PARTICLES == 100

\* The band table, in Object.entries order; a key is the sequence of its
\* characters so that the key conversion of analyzeFrequencyBands can be
\* computed character by character.
FREQ_BANDS ==
  << [key |-> <<"S","U","B","_","B","A","S","S">>,     min |-> 20,   max |-> 60],
     [key |-> <<"B","A","S","S">>,                     min |-> 60,   max |-> 250],
     [key |-> <<"L","O","W","_","M","I","D","S">>,     min |-> 250,  max |-> 500],
     [key |-> <<"M","I","D","S">>,                     min |-> 500,  max |-> 2000],
     [key |-> <<"H","I","G","H","_","M","I","D","S">>, min |-> 2000, max |-> 4000],
     [key |-> <<"T","R","E","B","L","E">>,             min |-> 4000, max |-> 20000] >>

\* The six property names of bandLevels / smoothedLevels (lines 55-65).
subBass  == <<"s","u","b","B","a","s","s">>
bass     == <<"b","a","s","s">>
lowMids  == <<"l","o","w","M","i","d","s">>
mids     == <<"m","i","d","s">>
highMids == <<"h","i","g","h","M","i","d","s">>
treble   == <<"t","r","e","b","l","e">>
LevelNames == {subBass, bass, lowMids, mids, highMids, treble}

\* ------------------------------------------------------------------------
\* Units of the fixed-point arithmetic
\* ------------------------------------------------------------------------
LevelScale == 60
SmoothScale == LevelScale * 100
EnergyScale == LevelScale * 48
BpmScale == 1000
\* particle life: decay (n/1000) * deltaTime * 0.06 (6/100) is a whole number
\* of units of 1/(1000*100)
LifeScale == 1000 * 100

\* ------------------------------------------------------------------------
\* Small helpers
\* ------------------------------------------------------------------------
Max(S) == CHOOSE x \in S : \A y \in S : y <= x
Min(S) == CHOOSE x \in S : \A y \in S : x <= y

RECURSIVE SeqSum(_)
SeqSum(s) == IF s = <<>> THEN 0 ELSE Head(s) + SeqSum(Tail(s))

\* ------------------------------------------------------------------------
\* String functions of JavaScript used by the key conversion
\* ------------------------------------------------------------------------
UpperChars == <<"A","B","C","D","E","F","G","H","I","J","K","L","M",
                "N","O","P","Q","R","S","T","U","V","W","X","Y","Z">>
LowerChars == <<"a","b","c","d","e","f","g","h","i","j","k","l","m",
                "n","o","p","q","r","s","t","u","v","w","x","y","z">>
IsLower(c) == \E i \in 1..26 : LowerChars[i] = c
IsUpper(c) == \E i \in 1..26 : UpperChars[i] = c
\* String.prototype.toUpperCase / toLowerCase on one character
toUpperCase(c) == IF IsLower(c) THEN UpperChars[CHOOSE i \in 1..26 : LowerChars[i] = c] ELSE c
toLowerCase(c) == IF IsUpper(c) THEN LowerChars[CHOOSE i \in 1..26 : UpperChars[i] = c] ELSE c

\* key.replace(/_([a-z])/g, (g) => g[1].toUpperCase()): every "_" that is
\* followed by a LOWER-case letter is replaced, with that letter, by the
\* letter in upper case; everything else is copied.
RECURSIVE replaceUnderscoreLower(_)
replaceUnderscoreLower(s) ==
  IF s = <<>> THEN <<>>
  ELSE IF Len(s) >= 2 /\ s[1] = "_" /\ IsLower(s[2])
       THEN <<toUpperCase(s[2])>> \o replaceUnderscoreLower(SubSeq(s, 3, Len(s)))
       ELSE <<s[1]>> \o replaceUnderscoreLower(Tail(s))

\* levelKey and camelKey of analyzeFrequencyBands (lines 124-125)
levelKey(key) ==
  LET r == replaceUnderscoreLower(key) IN [i \in 1..Len(r) |-> toLowerCase(r[i])]
camelKey(key) ==
  LET k == levelKey(key) IN
  IF k = <<>> THEN <<>> ELSE <<toLowerCase(k[1])>> \o Tail(k)

\* ------------------------------------------------------------------------
\* Spectral analysis (lines 92-143)
\* ------------------------------------------------------------------------
\* analyser.frequencyBinCount is fftSize / 2; frequencyData has that length.
frequencyBinCount == FFT_SIZE \div 2

\* Math.round of the non-negative rational n/d (halves round up)
RoundDiv(n, d) == (2 * n + d) \div (2 * d)

\* freqToIndex (lines 93-97): round(freq / (sampleRate/2) * binCount)
\* with the analyser's bin count as a parameter
freqToIndexAt(freq, sampleRate, binCount) == RoundDiv(2 * freq * binCount, sampleRate)
freqToIndex(freq, sampleRate) == freqToIndexAt(freq, sampleRate, frequencyBinCount)

\* The loop bounds of lines 109-115 for one band: i from startIndex while
\* i <= endIndex and i < frequencyData.length.
binsAveraged(min, max, sampleRate, binCount) ==
  { i \in freqToIndexAt(min, sampleRate, binCount)..freqToIndexAt(max, sampleRate, binCount) :
      i < binCount }
BandBins(band, sampleRate) == binsAveraged(band.min, band.max, sampleRate, frequencyBinCount)

\* sum of data[first..last] (the accumulation of lines 112-118), split in
\* halves to keep the evaluation shallow
RECURSIVE SumBins(_, _, _)
SumBins(data, first, last) ==
  IF first > last THEN 0
  ELSE IF first = last THEN data[first]
  ELSE LET m == (first + last) \div 2
       IN SumBins(data, first, m) + SumBins(data, m + 1, last)

\* avgLevel (line 121) in units of 1/LevelScale: (sum / count) / 255, 0 for an
\* empty range.
avgLevel(data, band, sampleRate) ==
  LET bins == BandBins(band, sampleRate) IN
  IF bins = {} THEN 0
  ELSE (SumBins(data, Min(bins), Max(bins)) * LevelScale) \div (Cardinality(bins) * 255)

\* Math.pow(x, 0.8) on a level: the largest r with (r/S)^5 <= (x/S)^4.
Pow08(x) == Max({ r \in 0..LevelScale : r * r * r * r * r <= x * x * x * x * LevelScale })
\* The fifth root of a level: the largest r with (r/S)^5 <= x/S.
Root5(x) ==
  Max({ r \in 0..LevelScale :
          r * r * r * r * r <= x * LevelScale * LevelScale * LevelScale * LevelScale })
\* Math.pow(x, 1.2) = x * x^(1/5)
Pow12(x) == (x * Root5(x)) \div LevelScale

\* The emphasis of lines 128-133, decided on the ORIGINAL key.
emphasized(key, avg) ==
  IF key = FREQ_BANDS[1].key \/ key = FREQ_BANDS[2].key THEN Pow08(avg)
  ELSE IF key = FREQ_BANDS[6].key THEN Pow12(avg)
  ELSE avg

\* The first loop of analyzeFrequencyBands (lines 108-136): the bands are
\* visited in order and bandLevels[camelKey] is assigned; assigning a property
\* the object does not have yet adds it.
RECURSIVE assignBands(_, _, _, _)
assignBands(levels, data, sampleRate, n) ==
  IF n > Len(FREQ_BANDS) THEN levels
  ELSE LET band == FREQ_BANDS[n]
           k    == camelKey(band.key)
           v    == emphasized(band.key, avgLevel(data, band, sampleRate))
           next == [p \in (DOMAIN levels) \cup {k} |-> IF p = k THEN v ELSE levels[p]]
       IN assignBands(next, data, sampleRate, n + 1)

\* The second loop (lines 139-142): smoothed = smoothed*(1-0.15) + raw*0.15,
\* over the keys of smoothedLevels.
MutantSmoothHolds(smoothed, levels) ==
  [k \in DOMAIN smoothed |->
     Max({smoothed[k], levels[k] * (SmoothScale \div LevelScale)})]
MutantSmoothOvershoots(smoothed, levels) ==
  [k \in DOMAIN smoothed |->
     (smoothed[k] * 85 + levels[k] * (SmoothScale \div LevelScale) * 30) \div 100]
smooth(smoothed, levels) ==
  [k \in DOMAIN smoothed |->
     (smoothed[k] * 85 + levels[k] * (SmoothScale \div LevelScale) * 15) \div 100]

\* ------------------------------------------------------------------------
\* Beat detection (lines 146-191)
\* ------------------------------------------------------------------------
minBeatInterval == 200
energyHistoryCapacity == 43

\* composite energy (lines 151-156), in units of 1/EnergyScale:
\* (subBass*2.0 + bass*1.5 + lowMids*0.8 + mids*0.5) / 4.8
compositeEnergy(levels) ==
  20 * levels[subBass] + 15 * levels[bass] + 8 * levels[lowMids] + 5 * levels[mids]

\* push, then shift when longer than the capacity (lines 159-162)
MutantPushDropsNewest(history, energy) ==
  LET h == Append(history, energy) IN
  IF Len(h) > energyHistoryCapacity THEN SubSeq(h, 1, energyHistoryCapacity) ELSE h
pushEnergy(history, energy) ==
  LET h == Append(history, energy) IN
  IF Len(h) > energyHistoryCapacity THEN Tail(h) ELSE h

\* avgEnergy * 1.4 + 0.1 (lines 165-166).  The stored value is truncated to a
\* whole unit; for a whole-unit energy e, e > exact threshold iff e > truncated
\* threshold, so the comparison of line 173 is exact.
MutantThresholdBeforePush(history) ==
  LET h == SubSeq(history, 1, Len(history) - 1) IN
  IF h = <<>> THEN EnergyScale \div 10
  ELSE (14 * SeqSum(h) + Len(h) * EnergyScale) \div (10 * Len(h))
MutantThresholdWithoutFloor(history) ==
  (14 * SeqSum(history)) \div (10 * Len(history))
adaptiveThresholdOf(history) ==
  (14 * SeqSum(history) + Len(history) * EnergyScale) \div (10 * Len(history))

\* the gate of line 173
MutantGateWithoutInterval(energy, threshold, timeSinceBeat) == energy > threshold
beatGate(energy, threshold, timeSinceBeat) ==
  energy > threshold /\ timeSinceBeat > minBeatInterval

\* the tempo update of lines 177-180
MutantBpmSlowSmoothing(bpm, timeSinceBeat) ==
  IF timeSinceBeat < 2000 /\ timeSinceBeat > 200
  THEN (bpm * 19 + (60000 * BpmScale) \div timeSinceBeat) \div 20
  ELSE bpm
smoothBpm(bpm, timeSinceBeat) ==
  IF timeSinceBeat < 2000 /\ timeSinceBeat > 200
  THEN (bpm * 9 + (60000 * BpmScale) \div timeSinceBeat) \div 10
  ELSE bpm

\* (timeSinceBeat % beatInterval) / beatInterval with beatInterval = 60000/bpm
\* (lines 187-188), in thousandths: the fractional part of
\* timeSinceBeat * bpm / 60000.
MutantPhaseWithoutWrap(timeSinceBeat, bpm) ==
  (timeSinceBeat * bpm) \div (60 * BpmScale)
beatPhaseOf(timeSinceBeat, bpm) ==
  ((timeSinceBeat * bpm) % (60000 * BpmScale)) \div (60 * BpmScale)

\* detectBeat as a whole: the beat state after one call at clock value t.
detectBeat(bs, levels, t) ==
  LET timeSinceBeat == t - bs.lastBeatTime
      energy    == compositeEnergy(levels)
      history   == pushEnergy(bs.energyHistory, energy)
      threshold == adaptiveThresholdOf(history)
      beat      == beatGate(energy, threshold, timeSinceBeat)
      bpm       == IF beat THEN smoothBpm(bs.bpm, timeSinceBeat) ELSE bs.bpm
  IN [ lastBeatTime      |-> IF beat THEN t ELSE bs.lastBeatTime,
       adaptiveThreshold |-> threshold,
       energyHistory     |-> history,
       bpm               |-> bpm,
       beatPhase         |-> beatPhaseOf(timeSinceBeat, bpm),
       isBeat            |-> beat ]

\* ------------------------------------------------------------------------
\* Orbs and particles (lines 198-431)
\* ------------------------------------------------------------------------
\* the orb pool built by initializeVisuals (lines 207-213)
initialOrbs ==
  << [band |-> subBass,  opacity |-> 0],
     [band |-> bass,     opacity |-> 0],
     [band |-> lowMids,  opacity |-> 0],
     [band |-> mids,     opacity |-> 0],
     [band |-> highMids, opacity |-> 0] >>

\* renderOrbs (lines 296-301): opacity = opacity*0.9 + level^0.8 * 0.1
renderOrbs(pool, smoothed) ==
  [i \in 1..Len(pool) |->
     [pool[i] EXCEPT !.opacity =
        (pool[i].opacity * 9
           + Pow08(smoothed[pool[i].band] \div (SmoothScale \div LevelScale))
               * (SmoothScale \div LevelScale)) \div 10]]

\* the aurora layers (lines 240-245); a layer is drawn unless its level is
\* below 0.05 (line 249)
auroraLayers == << subBass, bass, lowMids, mids >>
layerDrawn(smoothed, band) == ~(smoothed[band] * 100 < 5 * SmoothScale)

\* an orb is drawn unless its opacity is below 0.02 (line 303)
orbDrawn(orb) == ~(orb.opacity * 100 < 2 * SmoothScale)

\* new Particle(x, y, band) (lines 331-351): life 1 and a decay per band, in
\* thousandths.  Position, size and velocity only feed the drawing.
Particle(band) ==
  [band |-> band, life |-> LifeScale,
   decay |-> IF band = "bass" THEN 8 ELSE IF band = "mids" THEN 12 ELSE 18]

\* Particle.update that leaves the life as it was
MutantUpdateKeepsLife(p, deltaTime) == p

\* Particle.update (lines 359-365): life -= decay * deltaTime * 0.06
updateParticle(p, deltaTime) == [p EXCEPT !.life = p.life - p.decay * 6 * deltaTime]

\* updateParticles (line 425): keep the particles whose update returns life > 0
updateParticles(pool, deltaTime) ==
  LET moved == [i \in 1..Len(pool) |-> updateParticle(pool[i], deltaTime)]
  IN SelectSeq(moved, LAMBDA p : p.life > 0)

\* Math.random() < level * factor/10, the draw u in hundredths
randomBelow(u, level, factor) == u * SmoothScale * 10 < level * factor * 100

\* spawnParticles (lines 392-418); u1 and u2 are the two Math.random() draws
\* of the mids and the treble branch.
spawnParticles(pool, isBeat, smoothed, u1, u2) ==
  IF Len(pool) >= MAX_PARTICLES THEN pool
  ELSE
    LET count  == 3 + (smoothed[bass] * 8) \div SmoothScale
        nBeat  == IF isBeat THEN Min({count, MAX_PARTICLES - Len(pool)}) ELSE 0
        p1     == pool \o [i \in 1..nBeat |-> Particle("bass")]
        p2     == IF smoothed[mids] * 10 > 3 * SmoothScale /\ randomBelow(u1, smoothed[mids], 3)
                  THEN Append(p1, Particle("mids")) ELSE p1
        p3     == IF smoothed[treble] * 10 > 4 * SmoothScale /\ randomBelow(u2, smoothed[treble], 4)
                  THEN Append(p2, Particle("treble")) ELSE p2
    IN p3

\* ------------------------------------------------------------------------
\* The host: spectra delivered by the analyser, sample rates, random draws
\* ------------------------------------------------------------------------
\* A spectrum is described by the bands whose bins are lit and the magnitude
\* (0..255) they are lit with; every other bin is 0.
Silence  == [lit |-> {},           mag |-> 0]
Loud     == [lit |-> {1,2,3,4,5,6}, mag |-> 255]
SubOnly  == [lit |-> {1},          mag |-> 255]
BassOnly == [lit |-> {2},          mag |-> 255]
Kick     == [lit |-> {2, 4},       mag |-> 255]
Half     == [lit |-> {2, 4, 6},    mag |-> 128]
Spectra  == {Silence, Loud, SubOnly, BassOnly, Kick, Half}

SampleRates == {44100, 48000}

\* what getByteFrequencyData writes into frequencyData (line 103)
FrequencyData(sp, sampleRate) ==
  [i \in 0..(frequencyBinCount - 1) |->
     IF \E n \in sp.lit : i \in BandBins(FREQ_BANDS[n], sampleRate)
     THEN sp.mag ELSE 0]

\* The properties the first loop assigns for each spectrum and sample rate,
\* starting from an object without properties: computed once.
EmptyObject == [p \in {} |-> 0]
AssignedLevels ==
  [sp \in Spectra, sr \in SampleRates |->
     assignBands(EmptyObject, FrequencyData(sp, sr), sr, 1)]

\* analyzeFrequencyBands past its guard: the first loop overwrites (or adds)
\* the assigned properties of bandLevels, the second smooths.
analyzeFrequencyBands(levels, smoothed, data, sampleRate) ==
  LET assigned == AssignedLevels[data, sampleRate]
      raw == [p \in (DOMAIN levels) \cup (DOMAIN assigned) |->
                IF p \in DOMAIN assigned THEN assigned[p] ELSE levels[p]]
  IN [bandLevels |-> raw, smoothedLevels |-> smooth(smoothed, raw)]

\* ------------------------------------------------------------------------
\* Colour extraction (lines 620-704)
\* ------------------------------------------------------------------------
RGB(r, g, b) == [r |-> r, g |-> g, b |-> b]

\* let dominantColor = { r: 100, g: 80, b: 160 } (line 79)
initialColor == RGB(100, 80, 160)

\* The player page as extractDominantColor sees it: found = the element
\* ytmusic-player-page exists, rgb = its computed background colour has the
\* form "rgb(r, g, b)" (an "rgba(...)" string does not match the pattern of
\* line 627).
Page(found, rgb, r, g, b) == [found |-> found, rgb |-> rgb, r |-> r, g |-> g, b |-> b]

\* the test of lines 624-628
hostMatches(page) ==
  page.found /\ page.rgb /\ (page.r > 20 \/ page.g > 20 \/ page.b > 20)

\* the colour of lines 629-633
MutantHostColorUnclamped(page) ==
  RGB(page.r + 30, page.g + 30, page.b + 30)

hostColor(page) ==
  RGB(Min({255, page.r + 30}), Min({255, page.g + 30}), Min({255, page.b + 30}))

RECURSIVE GCD(_, _)
GCD(a, b) == IF b = 0 THEN a ELSE GCD(b, a % b)

\* brightness > 30 && brightness < 220 with brightness = (r + g + b) / 3 (lines 667, 670)
sampled(p) == p.r + p.g + p.b > 90 /\ p.r + p.g + p.b < 660

\* weight = 0.5 + saturation * 0.5 with saturation = (max - min) / max
\* (lines 672-675), as a fraction in lowest terms: (2 max - min) / (2 max)
weight(p) ==
  LET max == Max({p.r, p.g, p.b})
      min == Min({p.r, p.g, p.b})
      n == IF max > 0 THEN 2 * max - min ELSE 1
      d == IF max > 0 THEN 2 * max ELSE 2
  IN [num |-> n \div GCD(n, d), den |-> d \div GCD(n, d)]

RECURSIVE SeqProduct(_)
SeqProduct(s) == IF s = <<>> THEN 1 ELSE Head(s) * SeqProduct(Tail(s))

\* The loop of lines 663-682 over the pixels of the sampled region and the
\* rounding of lines 684-689: found = count > 0.  The sums are kept over the
\* common denominator of the weights.
weightedMean(pixels) ==
  LET kept == SelectSeq(pixels, sampled)
      D == SeqProduct([i \in 1..Len(kept) |-> weight(kept[i]).den])
      w == [i \in 1..Len(kept) |-> weight(kept[i]).num * (D \div weight(kept[i]).den)]
      count == SeqSum(w)
      rSum == SeqSum([i \in 1..Len(kept) |-> kept[i].r * w[i]])
      gSum == SeqSum([i \in 1..Len(kept) |-> kept[i].g * w[i]])
      bSum == SeqSum([i \in 1..Len(kept) |-> kept[i].b * w[i]])
  IN IF count > 0
     THEN [found |-> TRUE,
           color |-> RGB(RoundDiv(rSum, count), RoundDiv(gSum, count), RoundDiv(bSum, count))]
     ELSE [found |-> FALSE, color |-> RGB(0, 0, 0)]

\* The album art as the extraction sees it: src = an <img> with a src is
\* found (line 640), fetchOk = fetch and blob() resolve, loads = the image
\* decodes so that onload fires, drawOk = drawImage and getImageData do not
\* throw, pixels = the pixels of the sampled region (a few stand for all).
Art(src, fetchOk, loads, drawOk, pixels) ==
  [src |-> src, fetchOk |-> fetchOk, loads |-> loads, drawOk |-> drawOk, pixels |-> pixels]

NoArt       == Art(FALSE, FALSE, FALSE, FALSE, <<>>)
Unreachable == Art(TRUE, FALSE, FALSE, FALSE, <<>>)
Undecodable == Art(TRUE, TRUE, FALSE, FALSE, <<>>)
Unreadable  == Art(TRUE, TRUE, TRUE, FALSE, <<>>)
DarkArt     == Art(TRUE, TRUE, TRUE, TRUE, << RGB(10, 10, 10), RGB(250, 250, 250) >>)
WarmArt     == Art(TRUE, TRUE, TRUE, TRUE, << RGB(200, 100, 50), RGB(120, 120, 120) >>)
CoolArt     == Art(TRUE, TRUE, TRUE, TRUE, << RGB(40, 80, 160), RGB(10, 10, 10) >>)
\* fully saturated pixels with channels at both ends of 0..255
VividArt    == Art(TRUE, TRUE, TRUE, TRUE, << RGB(255, 0, 0), RGB(255, 255, 0) >>)
Artworks    == {NoArt, Unreachable, Undecodable, Unreadable, DarkArt, WarmArt, CoolArt}

NoPage    == Page(FALSE, FALSE, 0, 0, 0)
ClearPage == Page(TRUE, FALSE, 0, 0, 0)
DarkPage  == Page(TRUE, TRUE, 15, 15, 15)
RedPage   == Page(TRUE, TRUE, 240, 30, 10)
\* a translucent red, "rgba(240, 30, 10, 0.5)"
TintPage  == Page(TRUE, FALSE, 240, 30, 10)
WhitePage == Page(TRUE, TRUE, 255, 255, 255)
Pages     == {NoPage, ClearPage, DarkPage, RedPage}

\* The window after the scripts ran once (lines 9-13 and 1244-1260):
\* initialized = window.__livingBgProInitialized, engines = the instances of
\* the engine set up in the document (each with its toggle, background
\* element, click handler and timers), enhancers = the instances of the
\* lyrics enhancer.
initialInjection == [initialized |-> TRUE, engines |-> 1, enhancers |-> 1]

\* The lyrics enhancer as declared (part_000, lines 11-14) on a page that
\* shows no song.  A song is a number, 0 the empty title; the lyrics of song
\* n are n and the empty array is 0.  pageSong is what getSongInfo reads from
\* the player bar, container the lyrics shown in #yt-synced-container (0 when
\* the element is absent), fetches the songs of the requests in flight.
initialLyrics ==
  [pageSong |-> 0, currentSong |-> 0, syncedLyrics |-> 0, container |-> 0,
   fetches |-> <<>>]

\* The host process after app.whenReady (lines 1181-1187 and 1464-1467):
\* miniPlayerWindow is null (0) or the window the variable refers to, windows
\* the mini-player windows that exist, closing those close() was called on,
\* created the number of mini-player windows created so far, sent the
\* 'player-update' messages of the last step and received the track info the
\* last step received.
initialMini ==
  [miniPlayerWindow |-> 0, windows |-> {}, closing |-> {}, created |-> 0,
   currentTrackInfo |-> [title |-> "Not Playing", artist |-> "-", thumbnail |-> "",
                         isPlaying |-> FALSE],
   sent |-> <<>>, received |-> <<>>]

\* The preload bridge (preload.js, lines 4-23) before any call: sent = the
\* ipcRenderer.send calls made, listeners = the channels of the
\* ipcRenderer.on registrations, called = the last call of the page.
initialBridge == [sent |-> <<>>, listeners |-> <<>>, called |-> <<>>]

\* Array.prototype.includes
includes(list, x) == \E i \in 1..Len(list) : list[i] = x

\* the bridge's send that forwards every channel
MutantSendUnfiltered(b, channel, data) ==
  [b EXCEPT !.sent = Append(@, [channel |-> channel, data |-> data])]

\* ytMusicApp.send (preload.js, lines 9-14)
send(b, channel, data) ==
  LET validChannels == << "media-control", "window-control", "toggle-mini-player",
                          "track-info-update" >>
  IN IF includes(validChannels, channel)
     THEN [b EXCEPT !.sent = Append(@, [channel |-> channel, data |-> data])]
     ELSE b

\* ytMusicApp.receive (preload.js, lines 17-22)
receive(b, channel) ==
  LET validChannels == << "media-state", "theme-update" >>
  IN IF includes(validChannels, channel)
     THEN [b EXCEPT !.listeners = Append(@, channel)]
     ELSE b

\* ------------------------------------------------------------------------
\* State
\* ------------------------------------------------------------------------
VARIABLES
  \* the module-level variables of the engine (lines 43-86); null is 0
  isEnabled,        \* BOOLEAN
  audioContext,     \* 0, or the sample rate of the AudioContext
  analyser,         \* 0, 1 = an analyser no source feeds, 2 = fed by the video
  frequencyData,    \* 0, or the length of the Uint8Array
  spectrum,         \* the contents getByteFrequencyData last wrote into it
  spikePeriod,      \* the period (ms) of the spike train the video plays, 0 if none
  playing,          \* the video plays sound; once FALSE every frame is all-zero
  timeData,         \* 0, or the length of the Uint8Array
  isConnected,      \* BOOLEAN
  animationId,      \* 0, or the handle of the last requestAnimationFrame
  lastFrameTime,
  frameCount,
  currentFPS,
  bandLevels,       \* property name -> raw level
  smoothedLevels,   \* property name -> smoothed level
  beatState,
  particles,        \* sequence of particles
  orbs,             \* sequence of orbs
  dominantColor,    \* [r, g, b]
  \* the page
  now,              \* performance.now(), ms
  pending,          \* handles of the frame callbacks the browser will run
  video,            \* 0, or the <video> element document.querySelector finds
  tagged,           \* elements carrying __livingBgProConnected
  sourced,          \* elements a MediaElementSourceNode has been created for
  ownSources,       \* the elements connectAudio created a source node for, in order
  clickListener,    \* resumeAudio is registered on document
  toggleActive,     \* the toggle button carries class "active"
  bgDisplay,        \* style.display of #living-bg-pro
  pageColor,        \* the player page and its computed background colour
  artwork,          \* the album art the page shows
  extractions,      \* the extraction runs waiting for a fetch or an image load
  disco,            \* the DOM engine of part_001: its beat tracking and its beams
  injection,        \* the window: the initialization flag and the script instances
  lyrics,           \* the lyrics enhancer of part_000
  mini,             \* the host process: the mini player and the track info
  bridge,           \* the preload bridge: messages sent on, listeners registered
  \* history variables (not program state)
  lastOp,           \* the last event handled
  lastConnect,      \* how the last connectAudio call of the last step ended
  uncaught,         \* an exception left a handler
  userOn,           \* parity of the toggle clicks: the user's last click enabled
  bodyRan,          \* the last step ran the analysis/draw body
  lastExecTime,     \* time of the enable or of the last frame whose body ran
  beatTimes,        \* detector clock of every tick that registered a beat
  extractionEnded,  \* how an extraction run ended in the last step, if one did
  drawnColor,       \* the dominantColor the last executed body drew with
  \* a function under test: its name and arguments, and its result
  probeIn,
  probeOut

vars == << isEnabled, audioContext, analyser, frequencyData, spectrum, timeData, isConnected,
           animationId, lastFrameTime, frameCount, currentFPS, bandLevels,
           smoothedLevels, beatState, particles, orbs, now, pending, video, tagged,
           sourced, ownSources, clickListener, toggleActive, bgDisplay, lastOp,
           lastConnect, uncaught, userOn, bodyRan, lastExecTime, beatTimes, spikePeriod,
           dominantColor, pageColor, artwork, extractions, extractionEnded, drawnColor,
           probeIn, probeOut, playing, disco, injection, lyrics,
           mini, bridge >>

\* the current state as one record, and the assignment of a record to the
\* next state: handlers are functions from state records to state records
S ==
  [ isEnabled |-> isEnabled, audioContext |-> audioContext, analyser |-> analyser,
    frequencyData |-> frequencyData, spectrum |-> spectrum, timeData |-> timeData,
    isConnected |-> isConnected,
    animationId |-> animationId, lastFrameTime |-> lastFrameTime,
    frameCount |-> frameCount, currentFPS |-> currentFPS, bandLevels |-> bandLevels,
    smoothedLevels |-> smoothedLevels, beatState |-> beatState, particles |-> particles,
    orbs |-> orbs, now |-> now, pending |-> pending, video |-> video, tagged |-> tagged,
    sourced |-> sourced, ownSources |-> ownSources, clickListener |-> clickListener,
    toggleActive |-> toggleActive, bgDisplay |-> bgDisplay, lastOp |-> lastOp,
    lastConnect |-> lastConnect, uncaught |-> uncaught, userOn |-> userOn,
    bodyRan |-> bodyRan, lastExecTime |-> lastExecTime, beatTimes |-> beatTimes,
    spikePeriod |-> spikePeriod, dominantColor |-> dominantColor,
    pageColor |-> pageColor, artwork |-> artwork, extractions |-> extractions,
    extractionEnded |-> extractionEnded, drawnColor |-> drawnColor,
    probeIn |-> probeIn, probeOut |-> probeOut, playing |-> playing,
    disco |-> disco, injection |-> injection, lyrics |-> lyrics, mini |-> mini,
    bridge |-> bridge ]

Becomes(r) ==
  /\ isEnabled' = r.isEnabled          /\ audioContext' = r.audioContext
  /\ analyser' = r.analyser            /\ frequencyData' = r.frequencyData
  /\ timeData' = r.timeData            /\ isConnected' = r.isConnected
  /\ spectrum' = r.spectrum            /\ spikePeriod' = r.spikePeriod
  /\ animationId' = r.animationId      /\ lastFrameTime' = r.lastFrameTime
  /\ frameCount' = r.frameCount        /\ currentFPS' = r.currentFPS
  /\ bandLevels' = r.bandLevels        /\ smoothedLevels' = r.smoothedLevels
  /\ beatState' = r.beatState          /\ particles' = r.particles
  /\ orbs' = r.orbs                    /\ now' = r.now
  /\ pending' = r.pending              /\ video' = r.video
  /\ tagged' = r.tagged                /\ sourced' = r.sourced
  /\ ownSources' = r.ownSources        /\ clickListener' = r.clickListener
  /\ toggleActive' = r.toggleActive    /\ bgDisplay' = r.bgDisplay
  /\ lastOp' = r.lastOp                /\ lastConnect' = r.lastConnect
  /\ uncaught' = r.uncaught            /\ userOn' = r.userOn
  /\ bodyRan' = r.bodyRan              /\ lastExecTime' = r.lastExecTime
  /\ beatTimes' = r.beatTimes          /\ dominantColor' = r.dominantColor
  /\ pageColor' = r.pageColor          /\ artwork' = r.artwork
  /\ extractions' = r.extractions      /\ extractionEnded' = r.extractionEnded
  /\ drawnColor' = r.drawnColor        /\ probeIn' = r.probeIn
  /\ probeOut' = r.probeOut            /\ playing' = r.playing
  /\ disco' = r.disco                  /\ injection' = r.injection
  /\ lyrics' = r.lyrics                /\ mini' = r.mini
  /\ bridge' = r.bridge

\* The DOM engine's beat tracking and beams as declared (part_001, lines
\* 31-37, 40-49 and 61): twelve beams, none of them lit; avgBeatInterval is
\* kept as the exact fraction sum / n.  now is the Date.now() of the last
\* tick, startedAt that of the first one, period the period of the bass
\* pulses the page plays.  History: beats, the clock of every registered
\* beat; triggered and switchedOff, the beams the last tick triggered and the
\* beams whose switch-off branch it ran.
BeamCount == 12
initialDisco ==
  [ lastBassLevel   |-> 0,
    lastBeatTime    |-> 0,
    beatInterval    |-> 500,
    avgBeatInterval |-> [sum |-> 500, n |-> 1],
    beatHistory     |-> <<>>,
    beamActiveUntil |-> [i \in 1..BeamCount |-> 0],
    beamWidth       |-> [i \in 1..BeamCount |-> 0],
    beamOpacity     |-> [i \in 1..BeamCount |-> 0],
    now             |-> 0,
    startedAt       |-> 0,
    period          |-> 0,
    beats           |-> <<>>,
    triggered       |-> {},
    switchedOff     |-> {} ]

\* beatState as declared (lines 68-76); beatThreshold is never read or
\* written and is left out.
initialBeatState ==
  [ lastBeatTime      |-> 0,
    adaptiveThreshold |-> (6 * EnergyScale) \div 10,
    energyHistory     |-> <<>>,
    bpm               |-> 120 * BpmScale,
    beatPhase         |-> 0,
    isBeat            |-> FALSE ]

\* The state once the script has run and init() (lines 1147-1167) has created
\* the toggle, hidden the background and registered resumeAudio.  The page
\* may or may not hold a <video> yet, and another script may already have
\* created a media-element source for it.
Init ==
  /\ isEnabled = FALSE /\ audioContext = 0 /\ analyser = 0
  /\ frequencyData = 0 /\ spectrum = Silence /\ timeData = 0 /\ isConnected = FALSE
  /\ animationId = 0 /\ lastFrameTime = 0 /\ frameCount = 0 /\ currentFPS = 60
  /\ bandLevels = [k \in LevelNames |-> 0]
  /\ smoothedLevels = [k \in LevelNames |-> 0]
  /\ beatState = initialBeatState
  /\ particles = <<>> /\ orbs = <<>>
  /\ now = 0 /\ pending = {} /\ spikePeriod = 0
  /\ video \in {0, 1}
  /\ tagged = {}
  /\ sourced \in (IF video = 0 THEN {{}} ELSE {{}, {video}})
  /\ ownSources = <<>>
  /\ clickListener = TRUE /\ toggleActive = FALSE /\ bgDisplay = "none"
  /\ lastOp = "init" /\ lastConnect = "none" /\ uncaught = FALSE
  /\ userOn = FALSE /\ bodyRan = FALSE /\ lastExecTime = 0 /\ beatTimes = <<>>
  /\ dominantColor = initialColor /\ pageColor = NoPage /\ artwork = NoArt
  /\ extractions = <<>> /\ extractionEnded = "none" /\ drawnColor = initialColor
  /\ probeIn = [fn |-> "none"] /\ probeOut = [fn |-> "none"] /\ playing = TRUE
  /\ disco = initialDisco
  /\ injection = initialInjection /\ lyrics = initialLyrics /\ mini = initialMini
  /\ bridge = initialBridge

\* ------------------------------------------------------------------------
\* Handlers, as functions on state records
\* ------------------------------------------------------------------------
\* connectAudio (lines 568-614).  The function has no await, so a call runs to
\* completion.  sampleRate is the rate a newly created AudioContext gets,
\* contextOk whether `new AudioContext()` succeeds.  createMediaElementSource
\* throws "... already connected ..." exactly for an element that has a
\* source node; every error is caught by the catch of line 605.
MutantConnectNoRecovery(s, sampleRate, contextOk) ==
  IF s.isConnected THEN [s EXCEPT !.lastConnect = "connected"]
  ELSE IF s.video = 0 THEN [s EXCEPT !.lastConnect = "novideo"]
  ELSE IF s.video \in s.tagged
       THEN [s EXCEPT !.isConnected = TRUE, !.lastConnect = "reused"]
  ELSE IF s.audioContext = 0 /\ ~contextOk THEN [s EXCEPT !.lastConnect = "error"]
  ELSE
    LET s1 == [s EXCEPT !.audioContext = IF @ = 0 THEN sampleRate ELSE @,
                        !.analyser = 1]
    IN IF s.video \in s.sourced
       THEN [s1 EXCEPT !.lastConnect = "already"]
       ELSE [s1 EXCEPT !.analyser = 2,
                       !.sourced = @ \cup {s.video},
                       !.ownSources = Append(@, s.video),
                       !.tagged = @ \cup {s.video},
                       !.frequencyData = frequencyBinCount,
                       !.timeData = frequencyBinCount,
                       !.isConnected = TRUE,
                       !.lastConnect = "ok"]
connectAudio(s, sampleRate, contextOk) ==
  IF s.isConnected THEN [s EXCEPT !.lastConnect = "connected"]
  ELSE IF s.video = 0 THEN [s EXCEPT !.lastConnect = "novideo"]
  ELSE IF s.video \in s.tagged
       THEN [s EXCEPT !.isConnected = TRUE, !.lastConnect = "reused"]
  ELSE IF s.audioContext = 0 /\ ~contextOk THEN [s EXCEPT !.lastConnect = "error"]
  ELSE
    LET s1 == [s EXCEPT !.audioContext = IF @ = 0 THEN sampleRate ELSE @,
                        !.analyser = 1]
    IN IF s.video \in s.sourced
       THEN [s1 EXCEPT !.tagged = @ \cup {s.video},
                       !.isConnected = TRUE,
                       !.lastConnect = "already"]
       ELSE [s1 EXCEPT !.analyser = 2,
                       !.sourced = @ \cup {s.video},
                       !.ownSources = Append(@, s.video),
                       !.tagged = @ \cup {s.video},
                       !.frequencyData = frequencyBinCount,
                       !.timeData = frequencyBinCount,
                       !.isConnected = TRUE,
                       !.lastConnect = "ok"]

\* requestAnimationFrame(render): a fresh handle joins the browser's queue
requestAnimationFrame(s) ==
  LET id == Min({ i \in 1..(Cardinality(s.pending) + 2) : i \notin s.pending /\ i # s.animationId })
  IN [s EXCEPT !.animationId = id, !.pending = @ \cup {id}]

\* initializeVisuals (lines 198-216): the canvas exists since init(), so the
\* orb pool is built anew on every call.
initializeVisuals(s) == [s EXCEPT !.orbs = initialOrbs]

\* extractDominantColor up to its first await (lines 620-642): the host
\* colour is stored at once; otherwise a fetch of the album art starts, if
\* there is one; otherwise nothing is stored.
\* History kept with the waiting runs: the first n of them are outdated once
\* a run started after them has stored its colour.
Outdated(q, n) == [j \in DOMAIN q |-> IF j <= n THEN [q[j] EXCEPT !.outdated = TRUE] ELSE q[j]]

\* how a run that stores a colour ended: "overwrote" if a run started after
\* it had already stored another colour
storedAs(s, run, color) ==
  IF run.outdated /\ color # s.dominantColor THEN "overwrote" ELSE "stored"

extractDominantColor(s) ==
  IF hostMatches(s.pageColor)
  THEN [s EXCEPT !.dominantColor = hostColor(s.pageColor),
                 !.extractions = Outdated(@, Len(@)),
                 !.extractionEnded = "stored"]
  ELSE IF s.artwork.src
  THEN [s EXCEPT !.extractions =
                   Append(@, [stage |-> "fetch", art |-> s.artwork, outdated |-> FALSE])]
  ELSE [s EXCEPT !.extractionEnded = "nothing"]

RemoveAt(q, i) == SubSeq(q, 1, i - 1) \o SubSeq(q, i + 1, Len(q))

\* The run i continues after its awaits (lines 643-648, 699-702): a failed
\* fetch is caught and logged, a successful one hands the blob to an Image.
fetchSettled(s, i) ==
  IF s.extractions[i].art.fetchOk
  THEN [s EXCEPT !.extractions[i].stage = "load"]
  ELSE [s EXCEPT !.extractions = RemoveAt(@, i), !.extractionEnded = "nothing"]

\* img.onload of run i (lines 650-697), or the image's error event, which has
\* no handler: the colour is stored only if the image decodes, the canvas
\* can be read and some pixel is sampled.
MutantOnloadRestartsLoop(s, i) ==
  LET art == s.extractions[i].art
      s1 == [s EXCEPT !.extractions = RemoveAt(@, i)]
      s2 == IF s1.animationId = 0 THEN requestAnimationFrame(s1) ELSE s1
  IN IF art.loads /\ art.drawOk /\ weightedMean(art.pixels).found
     THEN [s2 EXCEPT !.dominantColor = weightedMean(art.pixels).color,
                     !.extractions = Outdated(@, i - 1),
                     !.extractionEnded =
                       storedAs(s, s.extractions[i], weightedMean(art.pixels).color)]
     ELSE [s2 EXCEPT !.extractionEnded = "nothing"]
imgSettled(s, i) ==
  LET art == s.extractions[i].art
      s1 == [s EXCEPT !.extractions = RemoveAt(@, i)]
  IN IF art.loads /\ art.drawOk /\ weightedMean(art.pixels).found
     THEN [s1 EXCEPT !.dominantColor = weightedMean(art.pixels).color,
                     !.extractions = Outdated(@, i - 1),
                     !.extractionEnded =
                       storedAs(s, s.extractions[i], weightedMean(art.pixels).color)]
     ELSE [s1 EXCEPT !.extractionEnded = "nothing"]

\* enableLivingBackground (lines 972-991)
enableLivingBackground(s, sampleRate, contextOk) ==
  LET s1 == initializeVisuals(extractDominantColor([s EXCEPT !.bgDisplay = "block"]))
      s2 == IF ~s1.isConnected THEN connectAudio(s1, sampleRate, contextOk) ELSE s1
  IN IF s2.animationId = 0
     THEN requestAnimationFrame([s2 EXCEPT !.lastFrameTime = s.now,
                                           !.lastExecTime = s.now])
     ELSE s2

\* disableLivingBackground (lines 993-1007)
MutantDisableKeepsParticles(s) ==
  LET s1 == [s EXCEPT !.bgDisplay = "none"]
  IN IF s1.animationId # 0
     THEN [s1 EXCEPT !.pending = @ \ {s1.animationId}, !.animationId = 0]
     ELSE s1
MutantDisableNoCancel(s) ==
  [s EXCEPT !.bgDisplay = "none", !.animationId = 0, !.particles = <<>>]
disableLivingBackground(s) ==
  LET s1 == [s EXCEPT !.bgDisplay = "none"]
      s2 == IF s1.animationId # 0
            THEN [s1 EXCEPT !.pending = @ \ {s1.animationId}, !.animationId = 0]
            ELSE s1
  IN [s2 EXCEPT !.particles = <<>>]

\* isEnabled = !isEnabled (line 950)
MutantToggledStuckOn(enabled) == TRUE
toggled(enabled) == ~enabled

\* the click handler of the toggle (lines 949-958)
toggleClick(s, sampleRate, contextOk) ==
  LET on == toggled(s.isEnabled)
      s1 == [s EXCEPT !.isEnabled = on, !.toggleActive = on]
  IN IF on THEN enableLivingBackground(s1, sampleRate, contextOk)
     ELSE disableLivingBackground(s1)

\* resumeAudio (lines 1137-1143), the click listener of document: it
\* connects and removes itself.  audioContext.resume() changes nothing the
\* engine reads.
resumeAudio(s, sampleRate, contextOk) ==
  [connectAudio(s, sampleRate, contextOk) EXCEPT !.clickListener = FALSE]

\* a click reaches the listeners of document after those of its target
documentListeners(s, sampleRate, contextOk) ==
  IF s.clickListener THEN resumeAudio(s, sampleRate, contextOk) ELSE s

\* ------------------------------------------------------------------------
\* The render loop (lines 529-562)
\* ------------------------------------------------------------------------
\* line 548: deltaTime < 1000 / CONFIG.TARGET_FPS - 2, multiplied through by
\* TARGET_FPS
skipFrame(deltaTime) == deltaTime * TARGET_FPS < 1000 - 2 * TARGET_FPS

\* lines 550-561: analysis, detection, then the drawing passes.  spectrum is
\* what the analyser delivers on this tick, u1 and u2 the random draws of
\* spawnParticles.  The passes that only draw (aurora, beat flash, bars,
\* waveform) leave the modelled state alone.
MutantRenderBodyUnguarded(s, deltaTime, delivered, u1, u2) ==
  LET data == delivered
      a == analyzeFrequencyBands(s.bandLevels, s.smoothedLevels, data,
                                 IF s.audioContext = 0 THEN 44100 ELSE s.audioContext)
      bs == detectBeat(s.beatState, a.bandLevels, s.now)
  IN [s EXCEPT !.spectrum = data,
               !.bandLevels = a.bandLevels,
               !.smoothedLevels = a.smoothedLevels,
               !.beatState = bs,
               !.orbs = renderOrbs(@, a.smoothedLevels),
               !.particles = updateParticles(
                               spawnParticles(@, bs.isBeat, a.smoothedLevels, u1, u2),
                               deltaTime),
               !.bodyRan = TRUE,
               !.drawnColor = s.dominantColor,
               !.lastExecTime = s.now,
               !.beatTimes = IF bs.isBeat THEN Append(@, s.now) ELSE @]
MutantRenderBodyDrawsFirst(s, deltaTime, delivered, u1, u2) ==
  LET analysing == s.analyser # 0 /\ s.frequencyData # 0
      data == IF ~analysing THEN s.spectrum
              ELSE IF s.analyser = 2 THEN delivered ELSE Silence
      a == IF ~analysing
           THEN [bandLevels |-> s.bandLevels, smoothedLevels |-> s.smoothedLevels]
           ELSE analyzeFrequencyBands(s.bandLevels, s.smoothedLevels, data, s.audioContext)
      bs == detectBeat(s.beatState, a.bandLevels, s.now)
  IN [s EXCEPT !.spectrum = data,
               !.bandLevels = a.bandLevels,
               !.smoothedLevels = a.smoothedLevels,
               !.beatState = bs,
               !.orbs = renderOrbs(@, s.smoothedLevels),
               !.particles = updateParticles(
                               spawnParticles(@, s.beatState.isBeat, s.smoothedLevels, u1, u2),
                               deltaTime),
               !.bodyRan = TRUE,
               !.drawnColor = s.dominantColor,
               !.lastExecTime = s.now,
               !.beatTimes = IF bs.isBeat THEN Append(@, s.now) ELSE @]
renderBody(s, deltaTime, delivered, u1, u2) ==
  LET analysing == s.analyser # 0 /\ s.frequencyData # 0
      data == IF ~analysing THEN s.spectrum
              ELSE IF s.analyser = 2 THEN delivered ELSE Silence
      a == IF ~analysing
           THEN [bandLevels |-> s.bandLevels, smoothedLevels |-> s.smoothedLevels]
           ELSE analyzeFrequencyBands(s.bandLevels, s.smoothedLevels, data, s.audioContext)
      bs == detectBeat(s.beatState, a.bandLevels, s.now)
  IN [s EXCEPT !.spectrum = data,
               !.bandLevels = a.bandLevels,
               !.smoothedLevels = a.smoothedLevels,
               !.beatState = bs,
               !.orbs = renderOrbs(@, a.smoothedLevels),
               !.particles = updateParticles(
                               spawnParticles(@, bs.isBeat, a.smoothedLevels, u1, u2),
                               deltaTime),
               !.bodyRan = TRUE,
               !.drawnColor = s.dominantColor,
               !.lastExecTime = s.now,
               !.beatTimes = IF bs.isBeat THEN Append(@, s.now) ELSE @]

\* render(timestamp): the callback the browser runs for a pending handle
render(s, timestamp, delivered, u1, u2) ==
  IF ~s.isEnabled THEN [s EXCEPT !.animationId = 0, !.bodyRan = FALSE]
  ELSE
    LET deltaTime == timestamp - s.lastFrameTime
        count == s.frameCount + 1
        s1 == [requestAnimationFrame(s) EXCEPT
                 !.lastFrameTime = timestamp,
                 !.frameCount = count,
                 !.currentFPS = IF count % 30 = 0 /\ deltaTime # 0
                                THEN 1000 \div deltaTime ELSE @,
                 !.bodyRan = FALSE]
    IN IF skipFrame(deltaTime) THEN s1
       ELSE renderBody(s1, deltaTime, delivered, u1, u2)

\* checkSongChange up to its await (part_000, lines 276-292): a song with a
\* title and an artist that differs from currentSong becomes the current
\* song, the lyrics and the container are dropped and a request is sent.
checkSongChange(s) ==
  LET song == s.lyrics.pageSong
  IN IF song # 0 /\ song # s.lyrics.currentSong
     THEN [s EXCEPT !.lyrics.currentSong = song,
                    !.lyrics.syncedLyrics = 0,
                    !.lyrics.container = 0,
                    !.lyrics.fetches = Append(@, song)]
     ELSE s

\* The request i settles and checkSongChange resumes (part_000, lines
\* 121-149 and 292-298).  found = the response is ok and carries synced
\* lyrics; otherwise fetchLyrics returns null and nothing is assigned.
fetchLyricsSettled(s, i, found) ==
  LET song == s.lyrics.fetches[i]
      rest == [j \in 1..(Len(s.lyrics.fetches) - 1) |->
                 s.lyrics.fetches[IF j < i THEN j ELSE j + 1]]
      s1 == [s EXCEPT !.lyrics.fetches = rest]
  IN IF found THEN [s1 EXCEPT !.lyrics.syncedLyrics = song] ELSE s1

\* injectSyncedLyrics (part_000, lines 185-231), run by the timers of lines
\* 296, 306 and 319-324: with a panel, lyrics held and no container yet, the
\* lyrics held are put into a new container.
injectSyncedLyrics(s, panel) ==
  IF ~panel \/ s.lyrics.syncedLyrics = 0 THEN s
  ELSE IF s.lyrics.container # 0 THEN s
  ELSE [s EXCEPT !.lyrics.container = s.lyrics.syncedLyrics]

\* { ...a, ...b } (line 1427): the fields of both, those of b winning
spread(a, b) ==
  [f \in DOMAIN a \cup DOMAIN b |-> IF f \in DOMAIN b THEN b[f] ELSE a[f]]

\* miniPlayerWindow.webContents.send('player-update', currentTrackInfo)
playerUpdate(s) ==
  IF s.mini.miniPlayerWindow # 0
  THEN [s EXCEPT !.mini.sent = Append(@, s.mini.currentTrackInfo)]
  ELSE s

\* createMiniPlayer (lines 1298-1337): an existing window is focused,
\* otherwise a window is created and the variable refers to it
createMiniPlayer(s) ==
  IF s.mini.miniPlayerWindow # 0 THEN s
  ELSE [s EXCEPT !.mini.created = @ + 1,
                 !.mini.windows = @ \cup {s.mini.created + 1},
                 !.mini.miniPlayerWindow = s.mini.created + 1]

\* miniPlayerWindow.close(): the window goes on to close; its 'closed' event
\* follows
closeMiniPlayer(s) ==
  [s EXCEPT !.mini.closing = @ \cup {s.mini.miniPlayerWindow}]

\* the toggle handler that creates a window whatever the variable holds
MutantToggleAlwaysCreates(s) ==
  [s EXCEPT !.mini.created = @ + 1,
            !.mini.windows = @ \cup {s.mini.created + 1},
            !.mini.miniPlayerWindow = s.mini.created + 1]

\* the 'toggle-mini-player' handler (lines 1342-1348)
toggleMiniPlayer(s) ==
  IF s.mini.miniPlayerWindow # 0 THEN closeMiniPlayer(s) ELSE createMiniPlayer(s)

\* the 'mini-player-control' handler (lines 1358-1421): 'close' closes the
\* window if there is one; every other action only clicks in the main window
miniPlayerControl(s, action) ==
  IF action = "close" /\ s.mini.miniPlayerWindow # 0 THEN closeMiniPlayer(s) ELSE s

\* the 'closed' handler of a mini-player window (lines 1327-1329)
miniPlayerClosed(s, w) ==
  [s EXCEPT !.mini.windows = @ \ {w}, !.mini.closing = @ \ {w},
            !.mini.miniPlayerWindow = 0]

\* the 'track-info-update' handler (lines 1426-1431)
trackInfoUpdate(s, info) ==
  playerUpdate([s EXCEPT !.mini.currentTrackInfo = spread(@, info),
                         !.mini.received = <<info>>])

\* The living-background script executed in the window (lines 5-13 and
\* 1166-1171): a window that carries the flag is left alone; otherwise the
\* flag is set and an engine instance is set up.
MutantScriptUnguarded(s) ==
  [s EXCEPT !.injection.initialized = TRUE, !.injection.engines = @ + 1]

livingBackgroundScript(s) ==
  IF s.injection.initialized THEN s
  ELSE [s EXCEPT !.injection.initialized = TRUE, !.injection.engines = @ + 1]

\* The lyrics enhancer executed in the window (part_000, lines 5-14 and
\* 327-340): the script has no guard, every execution sets up an instance.
lyricsEnhancerScript(s) == [s EXCEPT !.injection.enhancers = @ + 1]

\* The did-navigate-in-page handler of the host (lines 1269-1287): the style
\* sheet is inserted again, then each script whose file could be read is
\* executed in the window.
didNavigateInPage(s, lyricsJS, livingBgJS) ==
  LET s1 == IF lyricsJS THEN lyricsEnhancerScript(s) ELSE s
  IN IF livingBgJS THEN livingBackgroundScript(s1) ELSE s1

\* ------------------------------------------------------------------------
\* Actions
\* ------------------------------------------------------------------------
\* the state an event handler starts from: the per-step history is cleared
Event == [S EXCEPT !.bodyRan = FALSE, !.lastConnect = "none", !.extractionEnded = "none"]

\* The user clicks the toggle: its handler runs, then the listeners of
\* document.
ToggleClick(sampleRate, contextOk) ==
  LET s1 == toggleClick([Event EXCEPT !.userOn = ~userOn],
                        sampleRate, contextOk)
  IN /\ Becomes([documentListeners(s1, sampleRate, contextOk) EXCEPT !.lastOp = "toggle"])

\* The user clicks anywhere else in the page.
DocumentClick(sampleRate, contextOk) ==
  /\ Becomes([documentListeners(Event, sampleRate, contextOk)
                EXCEPT !.lastOp = "click"])

\* The browser runs a pending frame callback, dt ms after the last event.
FrameCallback(dt, delivered, u1, u2, maxTime) ==
  /\ now + dt <= maxTime
  /\ \E id \in pending :
       Becomes([render([Event EXCEPT !.now = now + dt, !.pending = @ \ {id}],
                       now + dt, delivered, u1, u2)
                  EXCEPT !.lastOp = "frame"])

\* Time passes while no frame callback is scheduled.
Idle(dt, maxTime) ==
  /\ pending = {}
  /\ now + dt <= maxTime
  /\ Becomes([Event EXCEPT !.now = now + dt, !.lastOp = "idle"])

\* The page inserts a <video> element (or replaces the one it had); another
\* script may have created a media-element source for it.
VideoAppears(external, maxVideos) ==
  /\ video < maxVideos
  /\ Becomes([Event EXCEPT !.video = video + 1,
                           !.sourced = IF external THEN @ \cup {video + 1} ELSE @,
                           !.lastOp = "video"])

\* The page shows another song: the player page's background colour and the
\* album art change.
PageChanges(page, art) ==
  /\ (page # pageColor \/ art # artwork)
  /\ Becomes([Event EXCEPT !.pageColor = page, !.artwork = art, !.lastOp = "page"])

\* The timer of updateTrackInfo fires (lines 1014-1016): the player bar
\* mutates all the time while a song plays, so a timer is always due.
UpdateTrackInfo(maxExtractions) ==
  /\ Len(extractions) < maxExtractions
  /\ Becomes([extractDominantColor(Event) EXCEPT !.lastOp = "track"])

\* The fetch of a waiting extraction run settles.
FetchSettles ==
  \E i \in 1..Len(extractions) :
    /\ extractions[i].stage = "fetch"
    /\ Becomes([fetchSettled(Event, i) EXCEPT !.lastOp = "fetched"])

\* The image of a waiting extraction run loads or fails to.
ImageSettles ==
  \E i \in 1..Len(extractions) :
    /\ extractions[i].stage = "load"
    /\ Becomes([imgSettled(Event, i) EXCEPT !.lastOp = "loaded"])

\* ------------------------------------------------------------------------
\* Specification: the life cycle of the engine
\* ------------------------------------------------------------------------
MaxTime == 40
MaxVideos == 1
FrameSteps == {8, 17}
LifeSpectra == {Silence, Loud}
LifeRates == {44100}
RandomDraws == {0, 99}

Next ==
  \/ \E sr \in LifeRates, ok \in BOOLEAN : ToggleClick(sr, ok)
  \/ \E sr \in LifeRates, ok \in BOOLEAN : DocumentClick(sr, ok)
  \/ \E dt \in FrameSteps, sp \in LifeSpectra, u1 \in RandomDraws, u2 \in RandomDraws :
       FrameCallback(dt, sp, u1, u2, MaxTime)
  \/ \E dt \in FrameSteps : Idle(dt, MaxTime)
  \/ \E ext \in BOOLEAN : VideoAppears(ext, MaxVideos)

Spec == Init /\ [][Next]_vars

\* ------------------------------------------------------------------------
\* Properties of the life cycle
\* ------------------------------------------------------------------------
\* C2: between handlers exactly one frame callback is pending while the engine
\* is enabled (the one animationId names) and none while it is disabled, so
\* two render loops never run side by side; and in every disabled state a
\* disable would change nothing.
C2_OneLoop ==
  /\ pending = (IF isEnabled THEN {animationId} ELSE {})
  /\ (isEnabled <=> animationId # 0)
  /\ Cardinality(pending) = (IF isEnabled THEN 1 ELSE 0)
  /\ (~isEnabled => disableLivingBackground(S) = S)
\* C2 witness: after an enable, a skipped callback, a disable and a second
\* enable, one callback is pending.
C2_Witness ==
  /\ isEnabled /\ frameCount >= 1 /\ lastOp = "toggle" /\ Cardinality(pending) = 1

\* C3: no step that runs the analysis/draw body ends in a state in which the
\* user's last toggle click was a disabling one.
C3_NoBodyWhileDisabled == bodyRan => (userOn /\ isEnabled)
\* C3 witness: the engine was disabled by a click while a callback was pending
\* (frames had run, time has passed since, nothing runs).
C3_Witness ==
  /\ ~userOn /\ ~isEnabled /\ frameCount >= 2 /\ lastOp = "idle" /\ now > lastFrameTime

\* C7 (as claimed): a frame callback of the enabled engine skips its body
\* exactly when less than 1000/TARGET_FPS ms have passed since the previous
\* frame whose body ran (or the enable), and schedules the next callback in
\* either case.
C7_ThrottleSinceLastExecuted ==
  [][ (lastOp' = "frame" /\ isEnabled)
        => /\ Cardinality(pending') = 1
           /\ (bodyRan' <=> ~((now' - lastExecTime) * TARGET_FPS < 1000)) ]_vars

\* C8 (as claimed): while the enabled engine is not connected and the page
\* holds a <video>, every click re-attempts the connection and, unless the
\* attempt fails with an error, ends connected.
C8_EveryClickRetries ==
  [][ (lastOp' \in {"click", "toggle"} /\ isEnabled /\ isEnabled'
         /\ ~isConnected /\ video # 0)
        => (lastConnect' # "none" /\ (isConnected' \/ lastConnect' = "error")) ]_vars

\* C9: connectAudio never creates two source nodes for one element, a call
\* on a tagged element or one whose source creation fails with "already
\* connected" ends connected, and no exception leaves it.
C9_SingleSource ==
  /\ \A i, j \in 1..Len(ownSources) : ownSources[i] = ownSources[j] => i = j
  /\ (lastConnect \in {"reused", "already"} => isConnected)
  /\ ~uncaught
\* C9 witness: a call ended in the "already connected" recovery without
\* creating a source.
C9_Witness == lastConnect = "already" /\ ownSources = <<>> /\ video \in tagged

\* C10 (as claimed): an enable that follows a disable leaves every orb's
\* opacity as it was.
C10_OrbsKept ==
  [][ (~isEnabled /\ isEnabled' /\ orbs # <<>>) => orbs' = orbs ]_vars

\* ------------------------------------------------------------------------
\* Specification: analysis and beat detection on a connected engine.  The
\* page holds a connectable <video>; the user enables the engine and leaves
\* it on; frames arrive every AudioSteps ms.
\* ------------------------------------------------------------------------
MaxAudioTime == 700
AudioSteps == {150, 250}
AudioSpectra == {Silence, SubOnly, BassOnly, Kick}
AudioDraws == {0}

InitAudio == Init /\ video = 1 /\ sourced = {}

NextAudio ==
  \/ (~isEnabled /\ \E sr \in SampleRates : ToggleClick(sr, TRUE))
  \/ \E dt \in AudioSteps, sp \in AudioSpectra, u1 \in AudioDraws, u2 \in AudioDraws :
       FrameCallback(dt, sp, u1, u2, MaxAudioTime)

SpecAudio == InitAudio /\ [][NextAudio]_vars

\* the six named levels, in the order of the band table
NamedLevels == << subBass, bass, lowMids, mids, highMids, treble >>

\* for every spectrum and sample rate, the shaped, 255-normalised mean of each
\* band's own bin range
ShapedMeans ==
  [sp \in Spectra, sr \in SampleRates |->
     [n \in 1..Len(FREQ_BANDS) |->
        emphasized(FREQ_BANDS[n].key,
                   avgLevel(FrequencyData(sp, sr), FREQ_BANDS[n], sr))]]

\* C4 (as claimed): after an analysis tick on a connected analyser each of
\* the six named levels is the shaped, 255-normalised mean of its band's bins.
C4_NamedLevelsFollowBands ==
  (bodyRan /\ analyser = 2 /\ frequencyData # 0)
    => \A n \in 1..Len(FREQ_BANDS) :
         bandLevels[NamedLevels[n]] = ShapedMeans[spectrum, audioContext][n]

\* C5: any two ticks that registered a beat are at least minBeatInterval
\* apart on the detector's clock.
C5_BeatsApart ==
  \A i, j \in 1..Len(beatTimes) : i < j => beatTimes[j] - beatTimes[i] >= minBeatInterval
\* C5 witness: a beat has been registered, and on this tick, less than
\* minBeatInterval later, the energy exceeds the threshold again and no beat
\* is registered.
C5_Witness ==
  /\ bodyRan /\ Len(beatTimes) >= 1 /\ ~beatState.isBeat
  /\ compositeEnergy(bandLevels) > beatState.adaptiveThreshold
  /\ now - beatState.lastBeatTime < minBeatInterval

\* ------------------------------------------------------------------------
\* Specification: a synthetic periodic spike train.  The video plays a kick
\* every spikePeriod ms and silence in between; the engine is enabled at a
\* multiple of the period and a frame is analysed every half period.
\* ------------------------------------------------------------------------
MaxTrainTime == 90000
MaxTrainBeats == 44
TrainPeriods == {250, 500, 1000, 1900}
TrainRates == {44100}

\* The video starts to play a spike train of period T.
SpikeTrainStarts(T) ==
  /\ spikePeriod = 0 /\ video # 0 /\ now = 0
  /\ Becomes([Event EXCEPT !.spikePeriod = T, !.lastOp = "train"])

\* A frame half a period after the last one, on or between two spikes.
TrainTick(maxTime, maxBeats) ==
  /\ spikePeriod # 0 /\ Len(beatTimes) < maxBeats
  /\ LET dt == spikePeriod \div 2
     IN FrameCallback(dt, IF (now + dt) % spikePeriod = 0 THEN Kick ELSE Silence,
                      0, 0, maxTime)

NextTrain ==
  \/ \E T \in TrainPeriods : SpikeTrainStarts(T)
  \/ (spikePeriod # 0 /\ ~isEnabled /\ now = 0 /\ Idle(2 * spikePeriod, MaxTrainTime))
  \/ (spikePeriod # 0 /\ ~isEnabled /\ \E sr \in TrainRates : ToggleClick(sr, TRUE))
  \/ TrainTick(MaxTrainTime, MaxTrainBeats)

SpecTrain == InitAudio /\ [][NextTrain]_vars

\* the number of consecutive periods of length T that end at the last
\* registered beat
RECURSIVE TrailingPeriods(_, _)
TrailingPeriods(times, T) ==
  IF Len(times) < 2 \/ times[Len(times)] - times[Len(times) - 1] # T THEN 0
  ELSE 1 + TrailingPeriods(SubSeq(times, 1, Len(times) - 1), T)

\* bpm is within 5% of 60000/T:  |bpm * T - 60000| <= 60000 / 20
WithinFivePercent(bpm, T) ==
  LET d == bpm * T - 60000 * BpmScale
  IN (IF d < 0 THEN -d ELSE d) * 20 <= 60000 * BpmScale

\* C6 (as claimed): once a beat has been registered every spikePeriod ms for
\* 10 or more consecutive periods the tempo estimate is within 5% of
\* 60000/spikePeriod.
C6_TenPeriods ==
  (spikePeriod # 0 /\ TrailingPeriods(beatTimes, spikePeriod) >= 10)
    => WithinFivePercent(beatState.bpm, spikePeriod)

\* C6 (amended): once a beat has been registered every spikePeriod ms
\* (200 < spikePeriod < 2000) for 41 or more consecutive periods the tempo
\* estimate is within 5% of 60000/spikePeriod.
C6_Converges ==
  (spikePeriod # 0 /\ TrailingPeriods(beatTimes, spikePeriod) >= 41)
    => WithinFivePercent(beatState.bpm, spikePeriod)
\* C6 witness: the slowest train has been registered for 41 periods and this
\* tick registered its last beat
C6_Witness ==
  /\ spikePeriod = 1900 /\ beatState.isBeat
  /\ TrailingPeriods(beatTimes, spikePeriod) >= 41

\* ------------------------------------------------------------------------
\* Specification: sustained loud audio.  Every band of every frame is at
\* full scale, a frame is rendered every 17 ms and every Math.random() draw
\* of the spawner comes out 0.
\* ------------------------------------------------------------------------
MaxLoudTime == 1700
LoudSteps == {17}
LoudDraws == {0}

NextLoud ==
  \/ (~isEnabled /\ \E sr \in SampleRates : ToggleClick(sr, TRUE))
  \/ \E dt \in LoudSteps, u1 \in LoudDraws, u2 \in LoudDraws :
       FrameCallback(dt, Loud, u1, u2, MaxLoudTime)

SpecLoud == InitAudio /\ [][NextLoud]_vars

\* C1 (as claimed): the particle pool never holds more than MAX_PARTICLES
\* particles.
C1_PoolWithinCap == Len(particles) <= MAX_PARTICLES

\* ------------------------------------------------------------------------
\* Specification: sessions.  The page holds a connectable <video> that plays
\* at full scale or is silent; the user toggles the engine at will; a frame
\* is rendered every 17 ms while it is enabled.
\* ------------------------------------------------------------------------
MaxSessionTime == 140
SessionSteps == {17}
SessionSpectra == {Silence, Loud}
SessionDraws == {0}

NextSession ==
  \/ \E sr \in LifeRates : ToggleClick(sr, TRUE)
  \/ \E dt \in SessionSteps, sp \in SessionSpectra, u1 \in SessionDraws, u2 \in SessionDraws :
       FrameCallback(dt, sp, u1, u2, MaxSessionTime)
  \/ \E dt \in SessionSteps : Idle(dt, MaxSessionTime)

SpecSession == InitAudio /\ [][NextSession]_vars

\* C11: while the engine is disabled the particle pool is empty, and only a
\* step that runs the analysis/draw body puts a particle into the pool: the
\* pool is empty from a disable until the first tick after the next enable.
C11_PoolEmptyWhileDisabled ==
  [][ /\ (~isEnabled' => particles' = <<>>)
      /\ (~bodyRan' => (particles' = <<>> \/ particles' = particles)) ]_vars
\* C11 witness: a disabling click has just emptied a pool that held particles
\* (the smoothed mids level is above the spawn threshold of line 407).
C11_Witness ==
  /\ ~isEnabled /\ lastOp = "toggle" /\ particles = <<>>
  /\ smoothedLevels[mids] * 10 > 3 * SmoothScale /\ frameCount >= 4

\* C12 (as claimed): while the engine is disabled the beat state has its
\* initial values (empty energy history, isBeat false, beatPhase 0, bpm 120,
\* lastBeatTime 0).
C12_BeatStateReset == ~isEnabled => beatState = initialBeatState

\* ------------------------------------------------------------------------
\* Specification: colour extraction.  Songs change, the timer of
\* updateTrackInfo fires, fetches and image loads settle in any order, and
\* the user toggles the engine.
\* ------------------------------------------------------------------------
MaxColorTime == 17
MaxExtractions == 2
ColorSteps == {17}
ColorPages == {DarkPage, RedPage}
ColorArts == {NoArt, Undecodable, WarmArt}

NextColor ==
  \/ (Len(extractions) < MaxExtractions /\ \E sr \in LifeRates : ToggleClick(sr, TRUE))
  \/ \E dt \in ColorSteps : FrameCallback(dt, Silence, 0, 0, MaxColorTime)
  \/ \E page \in ColorPages, art \in ColorArts : PageChanges(page, art)
  \/ UpdateTrackInfo(MaxExtractions)
  \/ FetchSettles
  \/ ImageSettles

SpecColor == InitAudio /\ [][NextColor]_vars

\* C13 (as claimed): whenever an extraction run ends without storing a
\* colour, dominantColor is the one fixed triple; the triple can only be the
\* initial colour, which is what a failed first run leaves.
C13_FixedFallback == extractionEnded = "nothing" => dominantColor = initialColor

\* C14: a fetch or an image load that settles while the engine is disabled
\* schedules no frame callback and leaves isEnabled and animationId alone;
\* and every executed tick draws with the colour stored last.
C14_LateResultOnlyStores ==
  [][ /\ (lastOp' \in {"fetched", "loaded"} /\ ~isEnabled)
          => (pending' = pending /\ isEnabled' = isEnabled /\ animationId' = animationId)
      /\ (bodyRan' => drawnColor' = dominantColor) ]_vars
\* C14 witness: the engine ran and was disabled, and then the image of a run
\* started earlier loaded and its colour was stored.
C14_Witness ==
  /\ lastOp = "loaded" /\ extractionEnded = "stored" /\ ~isEnabled /\ frameCount >= 1
  /\ dominantColor # initialColor

\* ------------------------------------------------------------------------
\* Specification: the bin range of a band.  A band definition, a sample rate
\* and a bin count are drawn and the loop bounds of analyzeFrequencyBands
\* are computed for them.
\* ------------------------------------------------------------------------
ProbeFrequencies == {20, 60, 250, 2000, 3999, 4000, 6000, 20000, 22045, 22050, 24000}
ProbeRates == {8000, 44100, 48000}
ProbeBinCounts == {16, 128, 1024}

BinRangeProbe(min, max, sampleRate, binCount) ==
  /\ Becomes([Event EXCEPT
       !.probeIn = [fn |-> "bins", min |-> min, max |-> max,
                    sampleRate |-> sampleRate, binCount |-> binCount],
       !.probeOut = [fn |-> "bins", bins |-> binsAveraged(min, max, sampleRate, binCount)],
       !.lastOp = "probe"])

NextBins ==
  \E min \in ProbeFrequencies, max \in ProbeFrequencies,
     sr \in ProbeRates, n \in ProbeBinCounts : BinRangeProbe(min, max, sr, n)

SpecBins == Init /\ [][NextBins]_vars

C16_BassFrameOnlyBass ==
  (bodyRan /\ analyser = 2 /\ frequencyData # 0 /\ spectrum = BassOnly)
    => \A n \in 1..Len(FREQ_BANDS) :
         bandLevels[camelKey(FREQ_BANDS[n].key)]
           = (IF n = 2 THEN LevelScale ELSE 0)

\* C17: as long as the engine has no analyser (no <video> was found, or no
\* AudioContext could be created), all six raw and smoothed levels are 0, no
\* beat is or was registered and no exception has left a handler.
C17_SilentWithoutConnection ==
  analyser = 0 =>
    /\ \A k \in LevelNames : bandLevels[k] = 0 /\ smoothedLevels[k] = 0
    /\ ~beatState.isBeat /\ beatTimes = <<>> /\ ~uncaught
\* C17 witness: a tick has just run its body on a page without a <video>,
\* with full-scale audio playing elsewhere.
C17_Witness ==
  /\ bodyRan /\ isEnabled /\ video = 0 /\ analyser = 0 /\ ~isConnected /\ frameCount >= 2

\* ------------------------------------------------------------------------
\* Specification: the music stops.  The connected engine renders full-scale
\* frames every 17 ms; at some moment the video falls silent and every
\* later frame is all-zero.  The browser keeps running the frame callbacks
\* of the enabled engine.
\* ------------------------------------------------------------------------
MaxStopTime == 170
MaxQuietTime == 2900
QuietSteps == {17}

MusicStops(maxTime) ==
  /\ playing /\ isEnabled /\ now <= maxTime
  /\ Becomes([Event EXCEPT !.playing = FALSE, !.lastOp = "stop"])

QuietFrame ==
  \E dt \in QuietSteps :
    FrameCallback(dt, IF playing THEN Loud ELSE Silence, 0, 0,
                  IF playing THEN MaxStopTime ELSE MaxQuietTime)

NextQuiet ==
  \/ (~isEnabled /\ \E sr \in SampleRates : ToggleClick(sr, TRUE))
  \/ MusicStops(MaxStopTime)
  \/ QuietFrame

\* a frame callback is due: the condition under which QuietFrame can happen
QuietFrameDue ==
  /\ pending # {}
  /\ \E dt \in QuietSteps : now + dt <= (IF playing THEN MaxStopTime ELSE MaxQuietTime)

\* The browser runs every requested frame callback.  The steps of QuietFrame
\* are the steps that leave lastOp = "frame" and QuietFrameDue is its
\* enabling condition, so this is WF_vars(QuietFrame) written out.
QuietFairness == ([]<>~QuietFrameDue) \/ ([]<><<lastOp' = "frame">>_vars)

SpecQuiet == InitAudio /\ [][NextQuiet]_vars /\ QuietFairness

\* the resting state: every smoothed level below a thousandth, no aurora
\* layer and no orb drawn
Resting ==
  /\ \A k \in DOMAIN smoothedLevels : smoothedLevels[k] * 1000 < SmoothScale
  /\ \A i \in 1..Len(auroraLayers) : ~layerDrawn(smoothedLevels, auroraLayers[i])
  /\ \A i \in 1..Len(orbs) : ~orbDrawn(orbs[i])

\* C18: once every frame is all-zero, each executed tick leaves every raw
\* level at 0 and no smoothed level higher than before; the engine reaches
\* the resting state after finitely many ticks, stays in it, and spawns no
\* particle while in it.
C18_SilenceSettles ==
  /\ [][ (bodyRan' /\ ~playing)
           => /\ \A p \in DOMAIN bandLevels' : bandLevels'[p] = 0
              /\ \A k \in DOMAIN smoothedLevels : smoothedLevels'[k] <= smoothedLevels[k] ]_vars
  /\ (~playing ~> Resting)
  /\ [][ (~playing /\ Resting) => (Resting' /\ Len(particles') <= Len(particles)) ]_vars
\* C18 witness: the music stopped while the energy history still held a loud
\* frame, and a tick has run with the engine at rest and the pool empty.
C18_Witness ==
  /\ ~playing /\ Resting /\ bodyRan /\ particles = <<>>
  /\ \E i \in 1..Len(beatState.energyHistory) : beatState.energyHistory[i] > 0

\* the raw level of a key in the units of the smoothed levels
RawOf(levels, k) == levels[k] * (SmoothScale \div LevelScale)

\* C19: on every executed tick every smoothed level stays within [0, 1], lies
\* between its previous value and the tick's raw level, and moves by at most
\* 0.15; while the raw level is held at 1 the smoothed level does not
\* decrease.
C19_SmoothingBounded ==
  [][ bodyRan' =>
        \A k \in DOMAIN smoothedLevels' :
          LET old == smoothedLevels[k]
              new == smoothedLevels'[k]
              raw == RawOf(bandLevels', k)
          IN /\ 0 <= new /\ new <= SmoothScale
             /\ (old <= raw => (old <= new /\ new <= raw))
             /\ (raw <= old => (raw <= new /\ new <= old))
             /\ (new - old) * 100 <= 15 * SmoothScale
             /\ (old - new) * 100 <= 15 * SmoothScale
             /\ (bandLevels'[k] = LevelScale => old <= new) ]_vars
\* C19 witness: the raw bass level is 1 and the smoothed bass level has
\* climbed past 0.27, which takes two ticks of the held step.
C19_Witness ==
  /\ bodyRan /\ analyser = 2 /\ spectrum = Loud
  /\ bandLevels[bass] = LevelScale
  /\ smoothedLevels[bass] * 100 > 27 * SmoothScale
  /\ smoothedLevels[bass] < SmoothScale

\* C20 (as claimed): after every executed tick beatPhase is the fraction of
\* the beat interval elapsed since the lastBeatTime in force at the end of the
\* tick; after a tick that registers a beat, lastBeatTime is the tick's time
\* and beatPhase is 0.
C20_PhaseFollowsLastBeat ==
  bodyRan =>
    /\ beatState.beatPhase = beatPhaseOf(now - beatState.lastBeatTime, beatState.bpm)
    /\ (beatState.isBeat => (beatState.lastBeatTime = now /\ beatState.beatPhase = 0))

\* every sample of the energy history equals its latest sample
ConstantHistory ==
  \A i \in 1..Len(beatState.energyHistory) :
    beatState.energyHistory[i] = beatState.energyHistory[Len(beatState.energyHistory)]

\* C21: a tick whose composite energy equals every sample of the energy
\* history (the first tick, a run of constant energy) registers no beat.
C21_NoBeatOnConstantEnergy ==
  (bodyRan /\ ConstantHistory) => ~beatState.isBeat
\* C21 witness: the first tick came more than minBeatInterval after the
\* initial lastBeatTime with an energy above the 0.1 floor, so only the
\* threshold kept it from being a beat.
C21_Witness ==
  /\ bodyRan /\ Len(beatState.energyHistory) = 1
  /\ beatState.energyHistory[1] * 10 > EnergyScale
  /\ now - initialBeatState.lastBeatTime > minBeatInterval

\* ------------------------------------------------------------------------
\* Specification: a display with a constant refresh period.  The user enables
\* the engine and leaves it on; the first frame callback comes one period
\* after the click and every later one a period after the one before.
\* ------------------------------------------------------------------------
MaxFastTime == 400
FastSteps == {4, 8, 12, 17, 33}

\* dt is the period of the display: the callbacks so far came at dt, 2 dt,
\* ... after the click at time 0 (any period fits before the first callback)
FastPeriod(dt) == now = dt * frameCount

FastFrame ==
  \E dt \in FastSteps :
    /\ FastPeriod(dt)
    /\ FrameCallback(dt, Loud, 0, 0, MaxFastTime)

\* the clock reaches the next frame callback: the steps of FastFrame are the
\* steps that move the clock
FastTick ==
  /\ pending # {}
  /\ \E dt \in FastSteps :
       FastPeriod(dt) /\ now + dt <= MaxFastTime /\ now' = now + dt

NextFast ==
  \/ (~isEnabled /\ \E sr \in LifeRates : ToggleClick(sr, TRUE))
  \/ FastFrame

\* the browser runs every requested frame callback
SpecFast == InitAudio /\ [][NextFast]_vars /\ WF_now(FastTick)

\* a frame callback has run in the first half of the run
EarlyFrame == isEnabled /\ lastOp = "frame" /\ now + now <= MaxFastTime

C23_ConnectedCanAnalyse ==
  isConnected => (analyser # 0 /\ frequencyData # 0 /\ timeData # 0)

\* C24 (as claimed): no extraction run stores its colour over the different
\* colour stored by a run that was started after it, so that once all runs
\* have completed dominantColor is the colour of the newest run that found
\* one.
C24_NewestRunWins == extractionEnded # "overwrote"

\* C25 (as claimed): until a second beat has been registered the tempo
\* estimate is the default of 120.
C25_FirstBeatKeepsTempo ==
  Len(beatTimes) <= 1 => beatState.bpm = initialBeatState.bpm

\* ------------------------------------------------------------------------
\* The DOM engine (part_001): beat tracking and light beams
\* ------------------------------------------------------------------------
\* Levels of the DOM engine are byte magnitudes in units of 1/BassScale; an
\* intensity is in units of 1/IntensityOne.
BassScale == 100
IntensityOne == 180 * BassScale

Min2(a, b) == IF a < b THEN a ELSE b
CeilDiv(a, b) == (a + b - 1) \div b

\* smoothBass = lastBassLevel * 0.3 + bass * 0.7 (line 770), bass a byte mean
\* (bassMean here)
smoothBassOf(lastBassLevel, bassMean) ==
  (lastBassLevel * 3 + bassMean * BassScale * 7) \div 10
\* isBeat = smoothBass > 100 (line 788)
isBeatOf(smoothBass) == smoothBass > 100 * BassScale
\* bassIntensity = Math.min(smoothBass / 180, 1) (line 789)
bassIntensityOf(smoothBass) == Min2(smoothBass, IntensityOne)
\* intensity > 0.6 (lines 798 and 921)
strong(intensity) == 10 * intensity > 6 * IntensityOne

\* an interval as the fraction the engine averages with
Whole(ms) == [sum |-> ms, n |-> 1]
\* lines 808-810: the mean of the history once it holds three intervals
averaged(avg, history) ==
  IF Len(history) >= 3 THEN [sum |-> SeqSum(history), n |-> Len(history)] ELSE avg

\* Beat tracking (lines 792-814): timeSinceLastBeat is measured from
\* lastBeatTime, the gate is 70% of avgBeatInterval, the history keeps the
\* last eight intervals.
trackBeat(d, smoothBass, t) ==
  LET timeSinceLastBeat == t - d.lastBeatTime
      avg == d.avgBeatInterval
  IN IF /\ isBeatOf(smoothBass) /\ strong(bassIntensityOf(smoothBass))
        /\ timeSinceLastBeat * 10 * avg.n > 7 * avg.sum
     THEN LET pushed  == Append(d.beatHistory, timeSinceLastBeat)
              history == IF Len(pushed) > 8 THEN Tail(pushed) ELSE pushed
          IN [d EXCEPT !.beatHistory = history,
                       !.avgBeatInterval = averaged(@, history),
                       !.beatInterval = timeSinceLastBeat,
                       !.lastBeatTime = t,
                       !.beats = Append(@, t)]
     ELSE d

\* lines 914-915
isFastTempo(avg) == avg.sum < 450 * avg.n
isSlowTempo(avg) == avg.sum > 600 * avg.n

\* maxBeamsPerBeat (lines 925-937): Math.ceil(3 + intensity * 5), 1, or
\* Math.ceil(1 + intensity * 3)
maxBeamsPerBeat(avg, intensity) ==
  IF isFastTempo(avg) THEN 3 + CeilDiv(intensity * 5, IntensityOne)
  ELSE IF isSlowTempo(avg) THEN 1
  ELSE 1 + CeilDiv(intensity * 3, IntensityOne)
\* triggerChance (lines 925-937), in percent
triggerChance(avg) ==
  IF isFastTempo(avg) THEN 85 ELSE IF isSlowTempo(avg) THEN 35 ELSE 65

\* beamDuration (lines 948-955) in 1/100 ms, rounded up: a whole-millisecond
\* clock is below the exact end iff it is below the rounded one
MutantDurationUncapped(avg) ==
  IF isFastTempo(avg) THEN CeilDiv(55 * avg.sum, avg.n)
  ELSE CeilDiv(85 * avg.sum, avg.n)
beamDuration(avg) ==
  IF isFastTempo(avg) THEN CeilDiv(55 * avg.sum, avg.n)
  ELSE Min2(CeilDiv(85 * avg.sum, avg.n), 700 * 100)

\* shouldTrigger && triggerChance > 0.3 under isBeat && intensity > 0.6
\* (lines 921-946) for the beam with index i - 1
beamTriggered(avg, isBeat, intensity, i) ==
  /\ isBeat /\ strong(intensity)
  /\ i - 1 < maxBeamsPerBeat(avg, intensity)
  /\ triggerChance(avg) > 30

\* updateLightBeams (lines 903-988) with #disco-beams in the page.
\* isBeamActive is read at the top of the loop body (line 919), before the
\* trigger writes beamActiveUntil[i]; the switch-off of lines 983-986 comes
\* last.  Widths are whole pixels, opacities thousandths.
updateLightBeams(d, isBeat, intensity, currentTime) ==
  LET avg == d.avgBeatInterval
      trig == { i \in 1..BeamCount : beamTriggered(avg, isBeat, intensity, i) }
      off  == { i \in 1..BeamCount : ~(currentTime * 100 < d.beamActiveUntil[i]) }
  IN [d EXCEPT
        !.beamActiveUntil = [i \in 1..BeamCount |->
                               IF i \in trig THEN currentTime * 100 + beamDuration(avg)
                               ELSE @[i]],
        !.beamWidth = [i \in 1..BeamCount |->
                         IF i \in off THEN 0
                         ELSE IF i \in trig THEN 350 + (intensity * 450) \div IntensityOne
                         ELSE @[i]],
        !.beamOpacity = [i \in 1..BeamCount |->
                           IF i \in off THEN 0
                           ELSE IF i \in trig THEN 600 + (intensity * 400) \div IntensityOne
                           ELSE @[i]],
        !.triggered = trig,
        !.switchedOff = off]

\* updateVisuals (lines 764-869) with the background element in the page and
\* the engine enabled: smoothing, beat tracking, then the beams.
updateVisuals(d, bassMean, t) ==
  LET smoothBass == smoothBassOf(d.lastBassLevel, bassMean)
      d1 == trackBeat([d EXCEPT !.lastBassLevel = smoothBass, !.now = t], smoothBass, t)
  IN updateLightBeams(d1, isBeatOf(smoothBass), bassIntensityOf(smoothBass), t)

\* The engine is switched on with the wall clock at clock, on a page that
\* plays a full-scale bass pulse every period ms.
DiscoStarts(clock, period) ==
  /\ disco.period = 0
  /\ Becomes([Event EXCEPT !.disco = [initialDisco EXCEPT !.now = clock,
                                                          !.startedAt = clock,
                                                          !.period = period],
                           !.lastOp = "disco"])

\* A tick of animate (lines 1241-1252) that runs the analysis, dt ms after
\* the one before: the bass bins are full on a pulse and silent otherwise.
DiscoTick(dt, maxTime) ==
  /\ disco.period # 0
  /\ disco.now + dt - disco.startedAt <= maxTime
  /\ LET t == disco.now + dt
         bassMean == IF (t - disco.startedAt) % disco.period = 0 THEN 255 ELSE 0
     IN Becomes([Event EXCEPT !.disco = updateVisuals(@, bassMean, t), !.lastOp = "tick"])

\* ------------------------------------------------------------------------
\* Specification: the DOM engine on a steady pulse train.  The wall clock
\* is far larger than any beat period when the engine starts.
\* ------------------------------------------------------------------------
MaxDiscoTime == 4000
DiscoSteps == {50}
DiscoClocks == {1000000}
DiscoPeriods == {400, 500, 650}

NextDisco ==
  \/ \E clock \in DiscoClocks, period \in DiscoPeriods : DiscoStarts(clock, period)
  \/ \E dt \in DiscoSteps : DiscoTick(dt, MaxDiscoTime)

SpecDisco == Init /\ [][NextDisco]_vars

\* C26 (as claimed): under a steady train of strong bass pulses, no recorded
\* interval reaches back before the engine started, the engine never lets
\* two periods pass without registering a beat once it has registered one,
\* and a full history averages to the period.
C26_TempoFollowsPulses ==
  disco.period # 0 =>
    /\ \A i \in 1..Len(disco.beatHistory) :
         disco.beatHistory[i] <= disco.now - disco.startedAt
    /\ (disco.beats # <<>> => disco.now - disco.lastBeatTime <= 2 * disco.period)
    /\ (Len(disco.beatHistory) = 8
          => disco.avgBeatInterval.sum = disco.period * disco.avgBeatInterval.n)

\* C27 (as claimed): a beam triggered on a tick has a non-zero width and
\* opacity at the end of the tick, and a beam is switched off only on a tick
\* at or past its beamActiveUntil.
C27_TriggeredBeamShows ==
  /\ \A i \in disco.triggered : disco.beamWidth[i] > 0 /\ disco.beamOpacity[i] > 0
  /\ \A i \in disco.switchedOff : ~(disco.now * 100 < disco.beamActiveUntil[i])

\* ------------------------------------------------------------------------
\* Specification: the beams of one strong beat at two tempos
\* ------------------------------------------------------------------------
\* the number of beams a strong beat triggers
beamsTriggered(avg, intensity) ==
  Cardinality({ i \in 1..BeamCount : beamTriggered(avg, TRUE, intensity, i) })

BeamProbe(a, b, smoothBass) ==
  LET intensity == bassIntensityOf(smoothBass) IN
  /\ Becomes([Event EXCEPT
       !.probeIn = [fn |-> "beams", a |-> a, b |-> b, intensity |-> intensity],
       !.probeOut = [fn |-> "beams",
                     beamsA |-> beamsTriggered(a, intensity),
                     beamsB |-> beamsTriggered(b, intensity),
                     durationA |-> beamDuration(a),
                     durationB |-> beamDuration(b)],
       !.lastOp = "probe"])

ProbeTempos ==
  { Whole(ms) : ms \in {1, 300, 449, 450, 500, 600, 601, 700, 823, 824, 2000, 1000000} }
    \cup { [sum |-> 3599, n |-> 8], [sum |-> 4801, n |-> 8], [sum |-> 1349, n |-> 3] }
ProbeBassLevels == { b * BassScale : b \in {90, 109, 126, 150, 180, 255} }

\* the result depends on the arguments alone: one probe per behaviour
NextBeams ==
  /\ probeIn.fn = "none"
  /\ \E a \in ProbeTempos, b \in ProbeTempos, sb \in ProbeBassLevels : BeamProbe(a, b, sb)

SpecBeams == Init /\ [][NextBeams]_vars

\* tempo a is at least as fast as tempo b: its mean interval is no longer
NoSlower(a, b) == a.sum * b.n <= b.sum * a.n

LastEnergy == beatState.energyHistory[Len(beatState.energyHistory)]

\* C29: a tick whose composite energy is at most 0.1 registers no beat.
C29_NoBeatBelowFloor ==
  (bodyRan /\ LastEnergy * 10 <= EnergyScale) => ~beatState.isBeat
\* C29 witness: a tick with a positive energy of at most 0.1 came more than
\* minBeatInterval after the last beat and after silent ticks, so only the
\* additive floor of the threshold kept it from being a beat.
C29_Witness ==
  /\ bodyRan /\ LastEnergy > 0 /\ LastEnergy * 10 <= EnergyScale
  /\ now - beatState.lastBeatTime > minBeatInterval
  /\ Len(beatState.energyHistory) >= 2
  /\ beatState.energyHistory[1] = 0

\* the last n samples of a sequence, or all of it
LastOf(h, n) == IF Len(h) > n THEN SubSeq(h, Len(h) - n + 1, Len(h)) ELSE h

\* t is mean(history) * 1.4 + 0.1 cut to a whole unit of energy
IsThresholdOf(t, history) ==
  LET exact10n == 14 * SeqSum(history) + Len(history) * EnergyScale
  IN 10 * Len(history) * t <= exact10n /\ exact10n < 10 * Len(history) * (t + 1)

\* C30: every detector tick appends its composite energy to the history and
\* keeps the latest 43 samples in order, and leaves adaptiveThreshold at
\* mean * 1.4 + 0.1 of that history; no other step touches the history.
C30_HistoryWindow ==
  [][ /\ (bodyRan' =>
             /\ beatState'.energyHistory =
                  LastOf(Append(beatState.energyHistory, compositeEnergy(bandLevels')), 43)
             /\ Len(beatState'.energyHistory) <= 43
             /\ IsThresholdOf(beatState'.adaptiveThreshold, beatState'.energyHistory))
      /\ (~bodyRan' => beatState'.energyHistory = beatState.energyHistory) ]_vars
\* C30 witness: more than 43 ticks have run, the history is full, its oldest
\* sample is a loud one and its newest a silent one.
C30_Witness ==
  /\ bodyRan /\ frameCount > 43
  /\ Len(beatState.energyHistory) = 43
  /\ beatState.energyHistory[1] > 0 /\ LastEnergy = 0

\* C31: the tempo estimate lies strictly between 30 and 300, the beat phase
\* in [0, 1) (it is kept in thousandths) and the adaptive threshold, kept
\* cut to whole units of 1/EnergyScale, is at least 0.1 cut the same way.
C31_DetectorRanges ==
  /\ 30 * BpmScale < beatState.bpm /\ beatState.bpm < 300 * BpmScale
  /\ 0 <= beatState.beatPhase /\ beatState.beatPhase < 1000
  /\ beatState.adaptiveThreshold >= EnergyScale \div 10
\* C31 witness: a tick after a beat has moved the tempo estimate off its
\* default, more than one beat interval after the last beat.
C31_Witness ==
  /\ bodyRan /\ beatState.bpm # initialBeatState.bpm
  /\ beatTimes # <<>>
  /\ (now - beatState.lastBeatTime) * beatState.bpm > 60000 * BpmScale
  /\ beatState.beatPhase > 0

\* C32: in every executed tick the detector works on the band levels the
\* analysis of that tick left, and the orb pass, the particle spawn and the
\* particle update work on the smoothed levels and the beat flag that the
\* analysis and the detector of that tick left: the renderer passes come
\* after them and write none of bandLevels, smoothedLevels and beatState.
C32_AnalysisDetectionRender ==
  [][ bodyRan' =>
        /\ beatState' = detectBeat(beatState, bandLevels', now')
        /\ orbs' = renderOrbs(orbs, smoothedLevels')
        /\ \E u1 \in AudioDraws, u2 \in AudioDraws :
             particles' = updateParticles(
                            spawnParticles(particles, beatState'.isBeat,
                                           smoothedLevels', u1, u2),
                            now' - lastFrameTime) ]_vars
\* C32 witness: a tick on a connected analyser has changed the smoothed
\* levels, registered a beat and spawned particles for it.
C32_Witness ==
  /\ bodyRan /\ analyser = 2 /\ beatState.isBeat
  /\ smoothedLevels[bass] > 0 /\ particles # <<>> /\ orbs # <<>>

\* ------------------------------------------------------------------------
\* Specification: extraction runs on every kind of player page.  The page
\* changes at will and the song watcher starts runs; the engine stays off.
\* ------------------------------------------------------------------------
HostPages == {DarkPage, TintPage, WhitePage}
HostArts == {NoArt, WarmArt, VividArt}

NextHost ==
  \/ \E page \in HostPages, art \in HostArts : PageChanges(page, art)
  \/ UpdateTrackInfo(MaxExtractions)
  \/ FetchSettles
  \/ ImageSettles

SpecHost == Init /\ [][NextHost]_vars

\* the computed background colour of the player page has a channel above 20
BrightHost == pageColor.found /\ (pageColor.r > 20 \/ pageColor.g > 20 \/ pageColor.b > 20)

\* C33 (as claimed): a run started on a page whose background colour has a
\* channel above 20 stores that colour plus 30, clamped, and starts no fetch;
\* any other run stores nothing at its start and goes on to the artwork.
C33_HostColourFirst ==
  lastOp = "track" =>
    IF BrightHost
    THEN dominantColor = hostColor(pageColor) /\ extractionEnded = "stored"
    ELSE extractionEnded # "stored"

\* the particles of the pool that an update of deltaTime ms leaves alive
Survivors(pool, deltaTime) ==
  SelectSeq(pool, LAMBDA p : p.life - p.decay * 6 * deltaTime > 0)

\* C34: on every executed tick each particle of the pool either is dropped,
\* when its life reaches 0 or below, or stays with a strictly smaller life,
\* and no particle with a life of 0 or below is kept; once the music has
\* stopped, so that nothing is spawned, the pool of the running engine
\* becomes empty.
C34_ParticlesDie ==
  /\ [][ bodyRan' =>
          LET kept == Survivors(particles, now' - lastFrameTime)
          IN /\ now' - lastFrameTime > 0
             /\ Len(particles') >= Len(kept)
             /\ \A i \in 1..Len(kept) :
                  /\ particles'[i].band = kept[i].band
                  /\ particles'[i].life < kept[i].life
             /\ \A i \in 1..Len(particles') : particles'[i].life > 0 ]_vars
  /\ (~playing /\ particles # <<>>) ~> (particles = <<>>)

\* an executed tick has brought the oldest particle of the pool down to a
\* life that no further executed tick leaves above 0
C34_Witness ==
  /\ bodyRan /\ particles # <<>>
  /\ Head(particles).life < LifeScale \div 100
  /\ \A dt \in QuietSteps : Survivors(<<Head(particles)>>, dt) = <<>>

\* C35: whatever extraction runs have started and however far each has got,
\* every channel of dominantColor is an integer from 0 to 255.
C35_ColourInRange ==
  \A c \in {"r", "g", "b"} : dominantColor[c] \in 0..255

\* runs from the page and from the artwork have stored colours, the last
\* one with a channel at the upper end of the range
C35_Witness ==
  /\ extractionEnded \in {"stored", "overwrote"}
  /\ dominantColor.r = 255
  /\ \E i \in 1..Len(extractions) : extractions[i].outdated

\* ------------------------------------------------------------------------
\* Specification: the life cycle of the engine while the page navigates in
\* place and the host executes the scripts again.
\* ------------------------------------------------------------------------
MaxEnhancers == 3

\* The page navigates in place: the host's handler runs.
NavigateInPage(lyricsJS, livingBgJS, maxEnhancers) ==
  /\ injection.enhancers < maxEnhancers
  /\ Becomes([didNavigateInPage(Event, lyricsJS, livingBgJS) EXCEPT !.lastOp = "navigate"])

NextInject ==
  \/ \E sr \in LifeRates, ok \in BOOLEAN : ToggleClick(sr, ok)
  \/ \E sr \in LifeRates, ok \in BOOLEAN : DocumentClick(sr, ok)
  \/ \E dt \in FrameSteps, sp \in LifeSpectra, u1 \in RandomDraws, u2 \in RandomDraws :
       FrameCallback(dt, sp, u1, u2, MaxTime)
  \/ \E lyricsJS \in BOOLEAN, livingBgJS \in BOOLEAN :
       NavigateInPage(lyricsJS, livingBgJS, MaxEnhancers)

SpecInject == Init /\ [][NextInject]_vars

\* C36: the window holds one engine instance, with its one toggle, background
\* element, click handler and timers, and a step in which the host executes
\* the script again leaves the flag, the instance count, the pending frame
\* callbacks, the click handler and every variable of the engine as they were.
C36_ReinjectionIsNoOp ==
  /\ [](injection.engines = 1 /\ injection.initialized)
  /\ [][ lastOp' = "navigate" =>
          /\ injection'.engines = injection.engines
          /\ injection'.initialized = injection.initialized
          /\ UNCHANGED << isEnabled, audioContext, analyser, frequencyData, timeData,
                          isConnected, animationId, lastFrameTime, frameCount,
                          currentFPS, bandLevels, smoothedLevels, beatState,
                          particles, orbs, dominantColor, pending, tagged, sourced,
                          ownSources, clickListener, toggleActive, bgDisplay >> ]_vars

\* the script was executed again while the engine was enabled, connected and
\* rendering
C36_Witness ==
  /\ lastOp = "navigate" /\ injection.enhancers > 1
  /\ isEnabled /\ isConnected /\ frameCount > 0 /\ pending # {}

\* ------------------------------------------------------------------------
\* Specification: the lyrics enhancer.  The page moves from song to song,
\* the 2 s timer looks for a new song, requests settle in any order and the
\* injection timers fire.
\* ------------------------------------------------------------------------
MaxFetches == 2
LyricSongs == {0, 1, 2}

\* The player bar shows another song.
SongChanges(song) ==
  /\ song # lyrics.pageSong
  /\ Becomes([Event EXCEPT !.lyrics.pageSong = song, !.lastOp = "song"])

\* The timer of line 317 fires.
CheckSongChange(maxFetches) ==
  /\ Len(lyrics.fetches) < maxFetches
  /\ Becomes([checkSongChange(Event) EXCEPT !.lastOp = "check"])

\* A request to the lyrics service settles.
LyricsFetchSettles ==
  \E i \in 1..Len(lyrics.fetches), found \in BOOLEAN :
    Becomes([fetchLyricsSettled(Event, i, found) EXCEPT !.lastOp = "lyrics"])

\* A timer that injects the lyrics fires.
InjectTimer ==
  \E panel \in BOOLEAN :
    Becomes([injectSyncedLyrics(Event, panel) EXCEPT !.lastOp = "inject"])

NextLyrics ==
  \/ \E song \in LyricSongs : SongChanges(song)
  \/ CheckSongChange(MaxFetches)
  \/ LyricsFetchSettles
  \/ InjectTimer

SpecLyrics == Init /\ [][NextLyrics]_vars

\* C37 (as claimed): the lyrics held, and the lyrics in the panel, are those
\* of the current song whenever there are any.
C37_LyricsOfCurrentSong ==
  /\ lyrics.syncedLyrics \in {0, lyrics.currentSong}
  /\ lyrics.container \in {0, lyrics.currentSong}

\* ------------------------------------------------------------------------
\* Specification: the host process and its mini player.  The pages send
\* toggles, controls and track info in any order; windows close after
\* close() or when the user closes them.
\* ------------------------------------------------------------------------
MaxMiniWindows == 3
MiniActions == {"close", "play-pause", "next"}
TrackInfos ==
  { [title |-> "Song A", artist |-> "X", thumbnail |-> "a.jpg", isPlaying |-> TRUE],
    [title |-> "Song B", artist |-> "Y", thumbnail |-> "", isPlaying |-> TRUE],
    [isPlaying |-> FALSE, progress |-> 50],
    [isPlaying |-> TRUE, progress |-> 0] }

\* the state a handler of the host starts from
HostEvent == [Event EXCEPT !.mini.sent = <<>>, !.mini.received = <<>>]

ToggleMiniPlayer(maxWindows) ==
  /\ mini.created < maxWindows
  /\ Becomes([toggleMiniPlayer(HostEvent) EXCEPT !.lastOp = "minitoggle"])

MiniPlayerControl(action) ==
  /\ Becomes([miniPlayerControl(HostEvent, action) EXCEPT !.lastOp = "minicontrol"])

\* a mini-player window has closed
MiniPlayerClosed ==
  \E w \in mini.windows :
    Becomes([miniPlayerClosed(HostEvent, w) EXCEPT !.lastOp = "miniclosed"])

\* the mini player reports that it is ready (lines 1351-1355, 1332-1336)
MiniPlayerReady ==
  /\ Becomes([playerUpdate(HostEvent) EXCEPT !.lastOp = "miniready"])

TrackInfoUpdate(info) ==
  /\ Becomes([trackInfoUpdate(HostEvent, info) EXCEPT !.lastOp = "trackinfo"])

NextMini ==
  \/ ToggleMiniPlayer(MaxMiniWindows)
  \/ \E action \in MiniActions : MiniPlayerControl(action)
  \/ MiniPlayerClosed
  \/ MiniPlayerReady
  \/ \E info \in TrackInfos : TrackInfoUpdate(info)

SpecMini == Init /\ [][NextMini]_vars

\* C38: at most one mini-player window exists, the one miniPlayerWindow
\* refers to; a toggle closes the window when one exists and creates one
\* otherwise; a track-info-update leaves in currentTrackInfo the received
\* value of every field received and the old value of every other field, and
\* is forwarded, merged, exactly when a mini player exists.
C38_OneMiniPlayer ==
  /\ [](/\ Cardinality(mini.windows) <= 1
        /\ mini.windows = (IF mini.miniPlayerWindow = 0 THEN {} ELSE {mini.miniPlayerWindow})
        /\ mini.closing \subseteq mini.windows)
  /\ [][ lastOp' = "minitoggle" =>
          IF mini.windows # {}
          THEN mini'.windows = mini.windows /\ mini'.closing = mini.windows
          ELSE Cardinality(mini'.windows) = 1 /\ mini'.closing = {} ]_vars
  /\ [][ lastOp' = "trackinfo" =>
          LET info == mini'.received[1]
              old == mini.currentTrackInfo
              new == mini'.currentTrackInfo
          IN /\ DOMAIN new = DOMAIN old \cup DOMAIN info
             /\ \A f \in DOMAIN new :
                  new[f] = (IF f \in DOMAIN info THEN info[f] ELSE old[f])
             /\ mini'.sent = (IF mini.windows # {} THEN <<new>> ELSE <<>>)
             /\ mini'.windows = mini.windows ]_vars

\* a second mini player was created after the first had closed, and a
\* partial track info has just been merged and forwarded to it
C38_Witness ==
  /\ lastOp = "trackinfo" /\ mini.created = 2 /\ mini.windows = {2}
  /\ mini.sent # <<>>
  /\ mini.currentTrackInfo.title = "Song A"
  /\ "progress" \in DOMAIN mini.currentTrackInfo
  /\ mini.currentTrackInfo.progress = 50

\* ------------------------------------------------------------------------
\* Specification: the page calls the bridge with channels of every kind.
\* ------------------------------------------------------------------------
MaxBridgeCalls == 3
BridgeChannels ==
  { "media-control", "window-control", "toggle-mini-player", "track-info-update",
    "media-state", "theme-update", "mini-player-control", "mini-player-ready",
    "player-update", "Media-Control", "" }
BridgeData == {"play-pause", "next"}

BridgeCalls == Len(bridge.sent) + Len(bridge.listeners)

BridgeSend(channel, data, maxCalls) ==
  /\ BridgeCalls < maxCalls
  /\ Becomes([Event EXCEPT
               !.bridge = [send(bridge, channel, data) EXCEPT !.called = <<"send", channel, data>>],
               !.lastOp = "send"])

BridgeReceive(channel, maxCalls) ==
  /\ BridgeCalls < maxCalls
  /\ Becomes([Event EXCEPT
               !.bridge = [receive(bridge, channel) EXCEPT !.called = <<"receive", channel>>],
               !.lastOp = "receive"])

NextBridge ==
  \/ \E channel \in BridgeChannels, data \in BridgeData :
       BridgeSend(channel, data, MaxBridgeCalls)
  \/ \E channel \in BridgeChannels : BridgeReceive(channel, MaxBridgeCalls)

SpecBridge == Init /\ [][NextBridge]_vars

\* C39: a send passes its channel and data on to the main process exactly
\* when the channel is media-control, window-control, toggle-mini-player or
\* track-info-update, a receive registers a listener exactly when the channel
\* is media-state or theme-update, and a call with any other channel sends
\* nothing and registers nothing.
C39_ChannelWhitelist ==
  [][ LET channel == bridge'.called[2]
      IN /\ lastOp' = "send" =>
              /\ bridge'.listeners = bridge.listeners
              /\ IF channel \in {"media-control", "window-control",
                                 "toggle-mini-player", "track-info-update"}
                 THEN bridge'.sent = Append(bridge.sent,
                                            [channel |-> channel,
                                             data |-> bridge'.called[3]])
                 ELSE bridge'.sent = bridge.sent
         /\ lastOp' = "receive" =>
              /\ bridge'.sent = bridge.sent
              /\ IF channel \in {"media-state", "theme-update"}
                 THEN bridge'.listeners = Append(bridge.listeners, channel)
                 ELSE bridge'.listeners = bridge.listeners ]_vars

\* after a forwarded send and a registered receive, a send on a channel of
\* the receiving list has been ignored
C39_Witness ==
  /\ bridge.called = <<"send", "media-state", "next">>
  /\ Len(bridge.sent) = 1 /\ Len(bridge.listeners) = 1

====
